---- MODULE Spec2Model ----
(***************************************************************************)
(* Model of the glob engine: the pattern parser (src/src/parser.rs), the   *)
(* bytecode compiler (src/src/compiler.rs) and the backtracking matcher VM *)
(* (src/src/matcher.rs).                                                   *)
(*                                                                         *)
(* A pattern is a sequence of AST nodes, a path is the sequence of typed   *)
(* components that std::path::Path::components() yields, and byte strings  *)
(* are sequences of byte values.                                           *)
(***************************************************************************)
EXTENDS Integers, Sequences, FiniteSets, TLC

VARIABLES
    source,         \* the pattern text given to parse
    remaining,      \* the input parse_nodes has not consumed yet
    ast,            \* the nodes parse has produced so far
    run,            \* how many nodes `<:1>` the AST starts with that pattern
                    \* and program leave out, see FullPattern, FullProgram
    pattern,        \* the AST given to compile (after its leading run)
    appended,       \* how many nodes of the AST the loop of compile has appended
    program,        \* Program.instructions: the instruction vector (after
                    \* the instructions of the leading run)
    counters,       \* Program.counters: the number of counters allocated
    path,           \* the components of the path under test
    state,          \* Matcher.state : ProgramState
    alternatives,   \* Matcher.alternatives : Vec<ProgramState>
    result,         \* Matcher.result : MatchResult
    phase,          \* of a parse: "start" | "parsing" | "parsed"; of a
                    \* compile: "compiling" | "compiled" | "compile_error";
                    \* of a match: "running" | "returned" | "panicked";
                    \* of a walk: "walking"
    fs,             \* the file system the walker reads
    cwd,            \* the working directory of the process
    root,           \* the relative_to argument of glob
    tasks,          \* the calls of glob_to that are spawned or running
    tx,             \* the items in the result channel
    rx,             \* the consumer's end of the channel: "open" | "dropped"
    received        \* the items the consumer has taken from the iterator

\* what parse, compile and path_matches work on, and what the walker adds
core_vars ==
    <<source, remaining, ast, run, pattern, appended, program, counters, path, state, alternatives,
      result, phase>>
glob_vars == <<fs, cwd, root, tasks, tx, rx, received>>
vars == <<core_vars, glob_vars>>

----------------------------------------------------------------------------
(* Bounds of the checked input space. *)

\* largest repeat bound (min and max range over 0..MaxRepeat)
MaxRepeat == 2
\* largest number of components appended below a matched directory
MaxDepth == 2

----------------------------------------------------------------------------
(* Byte strings. *)

str_foo == <<102, 111, 111>>
str_fo == <<102, 111>>
str_foox == <<102, 111, 111, 120>>
str_bar == <<98, 97, 114>>
str_baz == <<98, 97, 122>>
str_file == <<102, 105, 108, 101>>
str_a == <<97>>
str_ab == <<97, 98>>
str_b == <<98>>
str_C == <<67, 58>>
\* e-acute (two-byte UTF-8 scalar) followed by "a"
str_ea == <<195, 169, 97>>
\* a byte that is not valid UTF-8, followed by "a"
str_xa == <<255, 97>>

starts_with(s, p) ==
    /\ Len(p) <= Len(s)
    /\ SubSeq(s, 1, Len(p)) = p

DropBytes(s, n) == SubSeq(s, n + 1, Len(s))

RECURSIVE Copies(_, _)
Copies(s, k) == IF k = 0 THEN <<>> ELSE s \o Copies(s, k - 1)

----------------------------------------------------------------------------
(* AST nodes (parser.rs, enum AstNode).  Every node is a record of the     *)
(* same shape; the fields a variant does not have are empty.               *)

Node(type) ==
    [type |-> type, bytes |-> <<>>, classes |-> <<>>, min |-> 0, max |-> 0,
     choices |-> <<>>, pattern |-> <<>>]

Sep == Node("Separator")
Prefix(text) == [Node("Prefix") EXCEPT !.bytes = text]
RootDir == Node("RootDir")
CurDir == Node("CurDir")
ParentDir == Node("ParentDir")
Recurse == Node("Recurse")
LiteralString(bytes) == [Node("LiteralString") EXCEPT !.bytes = bytes]
AnyCharacter == Node("AnyCharacter")
Wildcard == Node("Wildcard")
Characters(classes) == [Node("Characters") EXCEPT !.classes = classes]
Alternatives(choices) == [Node("Alternatives") EXCEPT !.choices = choices]
Repeat(min, max, pat) == [Node("Repeat") EXCEPT !.min = min, !.max = max, !.pattern = pat]

\* CharacterClass::Single / CharacterClass::Range
Single(ch) == [kind |-> "Single", lo |-> ch, hi |-> ch]
Range(lo, hi) == [kind |-> "Range", lo |-> lo, hi |-> hi]

----------------------------------------------------------------------------
(* Parser (parser.rs), on a Unix host: `/` is the only separator and no    *)
(* path has a Prefix component.                                            *)

\* the bytes that can start other nodes: * ? [ ] { } < > , : / \
MEANINGFUL_BYTES == {42, 63, 91, 93, 123, 125, 60, 62, 44, 58, 47, 92}

\* std::path::is_separator
is_separator(ch) == ch = 47

IsContinuation(b) == b >= 128 /\ b <= 191

\* the number of bytes of the UTF-8 scalar a string starts with, 0 when it
\* starts with no valid sequence (or is empty)
ScalarLen(s) ==
    LET n == Len(s) IN
    IF n = 0 THEN 0
    ELSE IF s[1] < 128 THEN 1
    ELSE IF s[1] >= 194 /\ s[1] <= 223 /\ n >= 2 /\ IsContinuation(s[2]) THEN 2
    ELSE IF /\ s[1] >= 224 /\ s[1] <= 239 /\ n >= 3
            /\ IsContinuation(s[2]) /\ IsContinuation(s[3])
            /\ (s[1] = 224 => s[2] >= 160)
            /\ (s[1] = 237 => s[2] <= 159) THEN 3
    ELSE IF /\ s[1] >= 240 /\ s[1] <= 244 /\ n >= 4
            /\ IsContinuation(s[2]) /\ IsContinuation(s[3]) /\ IsContinuation(s[4])
            /\ (s[1] = 240 => s[2] >= 144)
            /\ (s[1] = 244 => s[2] <= 143) THEN 4
    ELSE 0

\* the scalar value of the sequence ScalarLen found
ScalarValue(s) ==
    LET n == ScalarLen(s) IN
    CASE n = 1 -> s[1]
      [] n = 2 -> (s[1] - 192) * 64 + (s[2] - 128)
      [] n = 3 -> ((s[1] - 224) * 64 + (s[2] - 128)) * 64 + (s[3] - 128)
      [] n = 4 ->
            (((s[1] - 240) * 64 + (s[2] - 128)) * 64 + (s[3] - 128)) * 64 + (s[4] - 128)

\* get_utf8_char: <<>> (None) or << [ch, rest] >>
get_utf8_char(string) ==
    LET n == ScalarLen(string) IN
    IF n = 0 THEN <<>>
    ELSE << [ch |-> ScalarValue(string), rest |-> SubSeq(string, n + 1, Len(string))] >>

\* string[n..]
From(string, n) == SubSeq(string, n + 1, Len(string))

\* iter().position(|byte| pred): the 0-based index of the first byte in the
\* set, -1 for None
RECURSIVE position(_, _)
position(string, bytes) ==
    IF string = <<>> THEN -1
    ELSE IF string[1] \in bytes THEN 0
    ELSE LET r == position(Tail(string), bytes) IN IF r < 0 THEN -1 ELSE r + 1

\* a recogniser's NodeResult: Ok((string, out)) or Err((string, out))
Ok(string, out) == [ok |-> TRUE, string |-> string, out |-> out]
Err(string, out) == [ok |-> FALSE, string |-> string, out |-> out]

\* `let v = e; body`: the value of e, computed once, under a name
Let(e, body(_)) == CHOOSE y \in { body(v) : v \in {e} } : TRUE

\* Result::or_else
or_else(r, f(_, _)) == Let(r, LAMBDA res : IF res.ok THEN res ELSE f(res.string, res.out))

node_separator(string, out) ==
    LET c == get_utf8_char(string) IN
    IF c # <<>> /\ is_separator(c[1].ch)
    THEN Ok(c[1].rest, Append(out, Sep))
    ELSE Err(string, out)

node_any_character(string, out) ==
    IF Len(string) >= 1 /\ string[1] = 63
    THEN Ok(From(string, 1), Append(out, AnyCharacter))
    ELSE Err(string, out)

node_recurse(string, out) ==
    IF Len(string) >= 2 /\ string[1] = 42 /\ string[2] = 42
    THEN Ok(From(string, 2), Append(out, Recurse))
    ELSE Err(string, out)

node_wildcard(string, out) ==
    IF Len(string) >= 1 /\ string[1] = 42
    THEN Ok(From(string, 1), Append(out, Wildcard))
    ELSE Err(string, out)

\* the loop of node_character_class; <<>> when the class is rejected
RECURSIVE class_loop(_, _)
class_loop(string, classes) ==
    LET first == get_utf8_char(string) IN
    IF first = <<>> THEN <<>>
    ELSE
        LET s1 == first[1].rest
            is_range == Len(s1) >= 1 /\ s1[1] = 45
            last == get_utf8_char(From(s1, 1))
            s2 == IF is_range THEN last[1].rest ELSE s1
            ch_class == IF is_range THEN Range(first[1].ch, last[1].ch)
                        ELSE Single(first[1].ch)
        IN  IF is_range /\ last = <<>> THEN <<>>
            ELSE IF s2 = <<>> THEN <<>>
            ELSE IF s2[1] = 93
                 THEN << [string |-> From(s2, 1), classes |-> Append(classes, ch_class)] >>
            ELSE class_loop(s2, Append(classes, ch_class))

node_character_class(string, out) ==
    LET r == class_loop(From(string, 1), <<>>) IN
    IF Len(string) >= 1 /\ string[1] = 91 /\ r # <<>>
    THEN Ok(r[1].string, Append(out, Characters(r[1].classes)))
    ELSE Err(string, out)

\* the largest number of digits read as a count (u32 values beyond it are
\* outside the integers of the model)
MaxDigits == 9

IsDigits(s) == \A i \in 1..Len(s) : s[i] >= 48 /\ s[i] <= 57

RECURSIVE DigitsValue(_)
DigitsValue(s) ==
    IF s = <<>> THEN 0 ELSE DigitsValue(SubSeq(s, 1, Len(s) - 1)) * 10 + (s[Len(s)] - 48)

\* str::parse::<u32>: an optional `+` and at least one decimal digit;
\* <<>> is Err, <<n>> is Ok(n)
parse_u32(s) ==
    LET digits == IF Len(s) >= 1 /\ s[1] = 43 THEN From(s, 1) ELSE s IN
    IF digits = <<>> \/ ~IsDigits(digits) \/ Len(digits) > MaxDigits THEN <<>>
    ELSE << DigitsValue(digits) >>

\* std::str::from_utf8(..).is_ok()
RECURSIVE is_utf8(_)
is_utf8(s) ==
    LET n == ScalarLen(s) IN
    IF s = <<>> THEN TRUE
    ELSE IF n = 0 THEN FALSE
    ELSE is_utf8(From(s, n))

\* a variant that pushes the node and leaves the dots in the input
node_cur_or_parent_dir_in_place(string, out) ==
    LET starts_at_path_component_boundary(str) ==
            LET c == get_utf8_char(str) IN
            str = <<>> \/ (c # <<>> /\ is_separator(c[1].ch))
    IN
    IF out = <<>> \/ out[Len(out)] = RootDir \/ out[Len(out)] = Sep THEN
        IF /\ Len(string) >= 2 /\ string[1] = 46 /\ string[2] = 46
           /\ starts_at_path_component_boundary(From(string, 2))
        THEN Ok(string, Append(out, ParentDir))
        ELSE IF /\ Len(string) >= 1 /\ string[1] = 46
                /\ starts_at_path_component_boundary(From(string, 1))
        THEN Ok(string, Append(out, CurDir))
        ELSE Err(string, out)
    ELSE Err(string, out)

node_cur_or_parent_dir(string, out) ==
    LET starts_at_path_component_boundary(str) ==
            LET c == get_utf8_char(str) IN
            str = <<>> \/ (c # <<>> /\ is_separator(c[1].ch))
    IN
    IF out = <<>> \/ out[Len(out)] = RootDir \/ out[Len(out)] = Sep THEN
        IF /\ Len(string) >= 2 /\ string[1] = 46 /\ string[2] = 46
           /\ starts_at_path_component_boundary(From(string, 2))
        THEN Ok(From(string, 2), Append(out, ParentDir))
        ELSE IF /\ Len(string) >= 1 /\ string[1] = 46
                /\ starts_at_path_component_boundary(From(string, 1))
        THEN Ok(From(string, 1), Append(out, CurDir))
        ELSE Err(string, out)
    ELSE Err(string, out)

node_literal_string(string, out) ==
    LET idx == position(From(string, 1), MEANINGFUL_BYTES) IN
    IF idx >= 0
    THEN Ok(From(string, idx + 1), Append(out, LiteralString(SubSeq(string, 1, idx + 1))))
    ELSE Ok(<<>>, Append(out, LiteralString(string)))

RECURSIVE parse_nodes(_, _, _)
RECURSIVE next_node(_, _)
RECURSIVE node_alternatives(_, _)
RECURSIVE alternatives_loop(_, _)
RECURSIVE node_repeat(_, _)

\* parse_nodes with the closure `cond` given as the set of bytes it stops at
parse_nodes(string, stop, out) ==
    IF string = <<>> \/ string[1] \in stop THEN [string |-> string, out |-> out]
    ELSE Let(next_node(string, out), LAMBDA r : parse_nodes(r.string, stop, r.out))

\* the loop of node_alternatives; <<>> when the input ends before `}`
alternatives_loop(string, choices) ==
    Let(parse_nodes(string, {44, 125}, <<>>), LAMBDA r :
        IF r.string = <<>> THEN <<>>
        ELSE IF r.string[1] = 44
             THEN alternatives_loop(From(r.string, 1), Append(choices, r.out))
        ELSE << [string |-> From(r.string, 1), choices |-> Append(choices, r.out)] >>)

\* a variant that hands back its input without the `{` when it rejects
node_alternatives_dropping_brace(string, out) ==
    IF Len(string) >= 1 /\ string[1] = 123
    THEN Let(alternatives_loop(From(string, 1), <<>>), LAMBDA r :
            IF r # <<>>
            THEN Ok(r[1].string, Append(out, Alternatives(r[1].choices)))
            ELSE Err(From(string, 1), out))
    ELSE Err(string, out)

node_alternatives(string, out) ==
    IF Len(string) >= 1 /\ string[1] = 123
    THEN Let(alternatives_loop(From(string, 1), <<>>), LAMBDA r :
            IF r # <<>>
            THEN Ok(r[1].string, Append(out, Alternatives(r[1].choices)))
            ELSE Err(string, out))
    ELSE Err(string, out)

node_repeat(string, out) ==
    IF Len(string) >= 1 /\ string[1] = 60 THEN
        Let(parse_nodes(From(string, 1), {58}, <<>>), LAMBDA body :
        LET after_colon == From(body.string, 1)
            end_index == position(after_colon, {62})
            params == SubSeq(after_colon, 1, end_index)
            rest == From(after_colon, end_index + 1)
            comma_index == position(params, {44})
            min == parse_u32(SubSeq(params, 1, comma_index))
            max == parse_u32(From(params, comma_index + 1))
            times == parse_u32(params)
        IN  IF body.string = <<>> THEN Err(string, out)
            ELSE IF end_index < 0 THEN Err(string, out)
            ELSE IF ~is_utf8(params) THEN Err(string, out)
            ELSE IF comma_index >= 0 THEN
                IF min = <<>> \/ max = <<>> THEN Err(string, out)
                ELSE Ok(rest, Append(out, Repeat(min[1], max[1], body.out)))
            ELSE IF times = <<>> THEN Err(string, out)
            ELSE Ok(rest, Append(out, Repeat(times[1], times[1], body.out))))
    ELSE Err(string, out)

next_node(string, out) ==
    or_else(or_else(or_else(or_else(or_else(or_else(or_else(or_else(
        node_separator(string, out),
        node_any_character),
        node_recurse),
        node_wildcard),
        node_alternatives),
        node_character_class),
        node_repeat),
        node_cur_or_parent_dir),
        node_literal_string)

\* the segments of a byte string between separators
RECURSIVE Segments(_)
Segments(string) ==
    LET idx == position(string, {47}) IN
    IF idx < 0 THEN << string >>
    ELSE << SubSeq(string, 1, idx) >> \o Segments(From(string, idx + 1))

\* Path::components() after the root: empty and `.` segments are dropped,
\* except for a leading `.` of a relative path
components(string) ==
    LET segs == Segments(string)
        has_root == Len(string) >= 1 /\ string[1] = 47
        body == SelectSeq(segs, LAMBDA x : x # <<>> /\ x # <<46>>)
        lead == IF ~has_root /\ segs[1] = <<46>> THEN << <<46>> >> ELSE <<>>
    IN  [has_root |-> has_root, relative |-> lead \o body]

\* PathBuf::extend(components): the components joined by separators
RECURSIVE join(_)
join(comps) ==
    IF comps = <<>> THEN <<>>
    ELSE IF Len(comps) = 1 THEN comps[1]
    ELSE comps[1] \o <<47>> \o join(Tail(comps))

parse(string) ==
    LET c == components(string)
        nodes == IF c.has_root THEN << RootDir >> ELSE <<>>
    IN  parse_nodes(join(c.relative), {}, nodes).out

----------------------------------------------------------------------------
(* Instructions (compiler.rs, enum Instruction). *)

Instr(op) == [op |-> op, bytes |-> <<>>, classes |-> <<>>, off |-> 0, ctr |-> 0, val |-> 0]

\* ProgramOffset::PLACEHOLDER (usize::MAX): an offset outside every program
PLACEHOLDER == -1

\* the counter budget, u16::MAX
U16_MAX == 65535

I_Jump(off) == [Instr("Jump") EXCEPT !.off = off]
I_Alternative(off) == [Instr("Alternative") EXCEPT !.off = off]
I_Increment(c) == [Instr("Increment") EXCEPT !.ctr = c]
I_BranchIfLessThan(off, c, v) == [Instr("BranchIfLessThan") EXCEPT !.off = off, !.ctr = c, !.val = v]

\* Program::default(), with the error of anyhow::Result carried in err
EmptyProgram == [instructions |-> <<>>, counters |-> 0, absolute_prefix |-> <<>>, err |-> FALSE]

\* Program::here: offsets count from 0, Len is the offset of the next push
here(out) == Len(out.instructions)

push(out, instr) == [out EXCEPT !.instructions = Append(@, instr)]

\* out.instructions[off] = instr, for a 0-based offset
patch(out, off, instr) == [out EXCEPT !.instructions[off + 1] = instr]

append_wildcard_gadget(out) ==
    LET start == here(out) IN
    push(push(push(push(out,
        I_Alternative(start + 2)),
        I_Jump(start + 4)),
        Instr("AnyCharacter")),
        I_Jump(start))

append_recurse_gadget(out) ==
    LET start == here(out) IN
    push(push(push(push(push(out,
        I_Alternative(start + 2)),
        I_Jump(start + 5)),
        Instr("AnyString")),
        Instr("Separator")),
        I_Jump(start))

\* absolute_prefix.get_or_insert(PathBuf::new()).push(component): the
\* prefix is kept as <<>> (None) or <<components>> (Some)
\* a variant that inserts the empty PathBuf and pushes nothing
push_prefix_without_push(out, comp) ==
    LET cur == IF out.absolute_prefix = <<>> THEN <<>> ELSE out.absolute_prefix[1] IN
    [out EXCEPT !.absolute_prefix = << cur >>]

push_prefix(out, comp) ==
    LET cur == IF out.absolute_prefix = <<>> THEN <<>> ELSE out.absolute_prefix[1] IN
    [out EXCEPT !.absolute_prefix = << Append(cur, comp) >>]

RECURSIVE append_program(_, _)
RECURSIVE append_nodes(_, _)
RECURSIVE append_choices(_, _, _, _, _)

\* `for node in &nodes { append_program(out, node)?; }`
append_nodes(out, nodes) ==
    IF nodes = <<>> \/ out.err THEN out
    ELSE append_nodes(append_program(out, Head(nodes)), Tail(nodes))

\* the loop over choices of append_alternatives; returns the program and
\* the offsets of the end jumps
append_choices(out, choices, index, start, jumps) ==
    IF index >= Len(choices) \/ out.err THEN [out |-> out, jumps |-> jumps]
    ELSE
        LET choice_start == here(out)
            o1 == IF index > 0
                  THEN patch(out, start + (index - 1), I_Alternative(choice_start))
                  ELSE out
            o2 == append_nodes(o1, choices[index + 1])
        IN  IF o2.err THEN [out |-> o2, jumps |-> jumps]
            ELSE append_choices(push(o2, I_Jump(PLACEHOLDER)), choices, index + 1, start,
                                Append(jumps, here(o2)))

RECURSIVE push_n(_, _, _)
push_n(out, instr, n) == IF n <= 0 THEN out ELSE push_n(push(out, instr), instr, n - 1)

RECURSIVE patch_jumps(_, _, _)
patch_jumps(out, jumps, target) ==
    IF jumps = <<>> THEN out
    ELSE patch_jumps(patch(out, Head(jumps), I_Jump(target)), Tail(jumps), target)

\* a variant that leaves the end jumps of the choices unpatched
append_alternatives_unpatched(out, choices) ==
    LET start == here(out)
        o1 == push_n(out, I_Alternative(PLACEHOLDER), Len(choices) - 1)
    IN  append_choices(o1, choices, 0, start, <<>>).out

append_alternatives(out, choices) ==
    LET start == here(out)
        o1 == push_n(out, I_Alternative(PLACEHOLDER), Len(choices) - 1)
        r == append_choices(o1, choices, 0, start, <<>>)
    IN  IF r.out.err THEN r.out
        ELSE patch_jumps(r.out, r.jumps, here(r.out))

\* append_repeat with a budget one counter smaller
append_repeat_one_counter_short(out, min, max, pat) ==
    IF out.counters + 1 >= U16_MAX THEN [out EXCEPT !.err = TRUE]
    ELSE
        LET counter_id == out.counters
            o1 == [out EXCEPT !.counters = @ + 1]
            start == here(o1)
            o2 == push(o1, I_Increment(counter_id))
            o3 == append_nodes(o2, pat)
            o4 == push(o3, I_BranchIfLessThan(start, counter_id, min))
            h == here(o4)
        IN  IF o3.err THEN o3
            ELSE IF max > min
            THEN push(push(push(o4,
                    I_BranchIfLessThan(h + 2, counter_id, max)),
                    I_Jump(h + 3)),
                    I_Alternative(start))
            ELSE o4

\* append_repeat taking its counter id after the increment
append_repeat_id_after_increment(out, min, max, pat) ==
    IF out.counters >= U16_MAX THEN [out EXCEPT !.err = TRUE]
    ELSE
        LET o1 == [out EXCEPT !.counters = @ + 1]
            counter_id == o1.counters
            start == here(o1)
            o2 == push(o1, I_Increment(counter_id))
            o3 == append_nodes(o2, pat)
            o4 == push(o3, I_BranchIfLessThan(start, counter_id, min))
            h == here(o4)
        IN  IF o3.err THEN o3
            ELSE IF max > min
            THEN push(push(push(o4,
                    I_BranchIfLessThan(h + 2, counter_id, max)),
                    I_Jump(h + 3)),
                    I_Alternative(start))
            ELSE o4

append_repeat(out, min, max, pat) ==
    IF out.counters >= U16_MAX THEN [out EXCEPT !.err = TRUE]
    ELSE
        LET counter_id == out.counters
            o1 == [out EXCEPT !.counters = @ + 1]
            start == here(o1)
            o2 == push(o1, I_Increment(counter_id))
            o3 == append_nodes(o2, pat)
            o4 == push(o3, I_BranchIfLessThan(start, counter_id, min))
            h == here(o4)
        IN  IF o3.err THEN o3
            ELSE IF max > min
            THEN push(push(push(o4,
                    I_BranchIfLessThan(h + 2, counter_id, max)),
                    I_Jump(h + 3)),
                    I_Alternative(start))
            ELSE o4

append_program(out, node) ==
    CASE node.type = "Separator" -> push(out, Instr("Separator"))
      [] node.type = "Prefix" ->
            push_prefix(push(out, [Instr("Prefix") EXCEPT !.bytes = node.bytes]),
                        [kind |-> "Prefix", bytes |-> node.bytes])
      [] node.type = "RootDir" ->
            push_prefix(push(out, Instr("RootDir")), [kind |-> "RootDir", bytes |-> <<>>])
      [] node.type = "CurDir" -> push(out, Instr("CurDir"))
      [] node.type = "ParentDir" -> push(out, Instr("ParentDir"))
      [] node.type = "LiteralString" ->
            push(out, [Instr("LiteralString") EXCEPT !.bytes = node.bytes])
      [] node.type = "AnyCharacter" -> push(out, Instr("AnyCharacter"))
      [] node.type = "Characters" ->
            push(out, [Instr("Characters") EXCEPT !.classes = node.classes])
      [] node.type = "Wildcard" -> append_wildcard_gadget(out)
      [] node.type = "Recurse" -> append_recurse_gadget(out)
      [] node.type = "Alternatives" -> append_alternatives(out, node.choices)
      [] node.type = "Repeat" -> append_repeat(out, node.min, node.max, node.pattern)

\* compile without its last push
compile_without_complete(pat) == append_nodes(EmptyProgram, pat)

compile(pat) ==
    LET p == append_nodes(EmptyProgram, pat) IN
    IF p.err THEN p ELSE push(p, Instr("Complete"))

----------------------------------------------------------------------------
(* Matcher VM (matcher.rs). *)

\* a path component as yielded by Path::components()
Normal(bytes) == [kind |-> "Normal", bytes |-> bytes]
NonNormal(kind) == [kind |-> kind, bytes |-> <<>>]

\* Option<usize>: <<>> is None, <<n>> is Some(n)
length_of_first_char(string) ==
    LET n == ScalarLen(string) IN
    IF string = <<>> THEN <<>>
    ELSE IF n = 0 THEN <<1>>
    ELSE << n >>

\* ProgramState::new; the component iterator is the number of components
\* already taken (pos), current_string an Option: <<>> or <<bytes>>
NewState(num_counters) ==
    [pc |-> 0, pos |-> 0, current_string |-> <<>>, fresh_string |-> FALSE,
     counters |-> [i \in 1..num_counters |-> 0]]

NoResult == [valid_as_prefix |-> FALSE, valid_as_complete_match |-> FALSE]

\* path_components.peek(): <<>> or <<component>>
peek(st, p) == IF st.pos < Len(p) THEN << p[st.pos + 1] >> ELSE <<>>

\* path_components.next() advances the iterator unless it is exhausted
iter_next(st, p) == IF st.pos < Len(p) THEN [st EXCEPT !.pos = @ + 1] ELSE st

\* next_string: the kind of answer and the state it leaves behind
next_string(st, p) ==
    IF st.current_string # <<>> THEN [kind |-> "Normal", st |-> st]
    ELSE IF peek(st, p) # <<>> THEN
        IF peek(st, p)[1].kind = "Normal"
        THEN [kind |-> "Normal",
              st |-> [iter_next(st, p) EXCEPT !.fresh_string = TRUE,
                                             !.current_string = << peek(st, p)[1].bytes >>]]
        ELSE [kind |-> "NotNormal", st |-> st]
    ELSE [kind |-> "EndOfInput", st |-> st]

\* A matcher value m is [state, alternatives, result]; every handler
\* returns the matcher it leaves and the boolean advance() returns.
has_string(m) == m.state.current_string # <<>> /\ m.state.current_string[1] # <<>>

next(m) == [m |-> [m EXCEPT !.state.pc = @ + 1], ok |-> TRUE]

\* a variant that goes back to the oldest snapshot
try_alternative_oldest_first(m) ==
    IF m.alternatives # <<>>
    THEN [m |-> [m EXCEPT !.state = m.alternatives[1],
                          !.alternatives = SubSeq(@, 2, Len(@))],
          ok |-> TRUE]
    ELSE [m |-> m, ok |-> FALSE]

try_alternative(m) ==
    IF m.alternatives # <<>>
    THEN [m |-> [m EXCEPT !.state = m.alternatives[Len(m.alternatives)],
                          !.alternatives = SubSeq(@, 1, Len(@) - 1)],
          ok |-> TRUE]
    ELSE [m |-> m, ok |-> FALSE]

\* a variant that backtracks at the end of the input without recording it
end_of_input_unrecorded(m) == try_alternative(m)

end_of_input(m) == try_alternative([m EXCEPT !.result.valid_as_prefix = TRUE])

\* a variant that accepts without asking the iterator for a further component
complete_ignoring_rest(m, p) ==
    IF ~has_string(m)
    THEN try_alternative([m EXCEPT !.result.valid_as_complete_match = TRUE])
    ELSE try_alternative(m)

\* a variant that stops the match at the first accept instead of backtracking
complete_then_halt(m, p) ==
    IF ~has_string(m) /\ peek(m.state, p) = <<>>
    THEN [m |-> [m EXCEPT !.result.valid_as_complete_match = TRUE], ok |-> FALSE]
    ELSE IF ~has_string(m)
         THEN try_alternative([m EXCEPT !.state = iter_next(m.state, p)])
         ELSE try_alternative(m)

\* a variant that writes a whole new result when it accepts
complete_overwriting_result(m, p) ==
    IF ~has_string(m) /\ peek(m.state, p) = <<>>
    THEN try_alternative([m EXCEPT !.result = [valid_as_prefix |-> FALSE,
                                               valid_as_complete_match |-> TRUE]])
    ELSE IF ~has_string(m)
         THEN try_alternative([m EXCEPT !.state = iter_next(m.state, p)])
         ELSE try_alternative(m)

complete(m, p) ==
    IF ~has_string(m) /\ peek(m.state, p) = <<>>
    THEN try_alternative([m EXCEPT !.result.valid_as_complete_match = TRUE])
    ELSE IF ~has_string(m)
         \* the short-circuit && has already called path_components.next()
         THEN try_alternative([m EXCEPT !.state = iter_next(m.state, p)])
         ELSE try_alternative(m)

\* the current string of a state whose next_string answered Normal
cur(m) == m.state.current_string[1]

\* a variant in which a separator at the end of the path is a plain mismatch
adv_separator_mismatch_at_end(m, p) ==
    IF ~has_string(m) THEN
        LET m1 == [m EXCEPT !.state.current_string = <<>>] IN
        IF peek(m1.state, p) # <<>> THEN next(m1) ELSE try_alternative(m1)
    ELSE IF m.state.fresh_string THEN next(m)
    ELSE try_alternative(m)

\* Instruction::Separator (both guarded arms and the `_` arm)
adv_separator(m, p) ==
    IF ~has_string(m) THEN
        LET m1 == [m EXCEPT !.state.current_string = <<>>] IN
        IF peek(m1.state, p) # <<>> THEN next(m1) ELSE end_of_input(m1)
    ELSE IF m.state.fresh_string THEN next(m)
    ELSE try_alternative(m)

\* a variant in which a missing component is a plain mismatch
take_component_mismatch_at_end(m, p, kind, bytes) ==
    IF has_string(m) \/ peek(m.state, p) = <<>> THEN try_alternative(m)
    ELSE
        LET c == peek(m.state, p)[1]
            m1 == [m EXCEPT !.state = iter_next(m.state, p)]
        IN  IF c.kind = kind /\ (kind = "Prefix" => c.bytes = bytes)
            THEN next(m1)
            ELSE try_alternative(m1)

\* the shared shape of Prefix, RootDir, CurDir and ParentDir: take the next
\* component and compare it with the one the instruction names
take_component(m, p, kind, bytes) ==
    IF has_string(m) THEN try_alternative(m)
    ELSE IF peek(m.state, p) = <<>> THEN end_of_input(m)
    ELSE
        LET c == peek(m.state, p)[1]
            m1 == [m EXCEPT !.state = iter_next(m.state, p)]
        IN  IF c.kind = kind /\ (kind = "Prefix" => c.bytes = bytes)
            THEN next(m1)
            ELSE try_alternative(m1)

adv_prefix(m, p, string) == take_component(m, p, "Prefix", string)
adv_root_dir(m, p) == take_component(m, p, "RootDir", <<>>)
adv_cur_dir(m, p) == take_component(m, p, "CurDir", <<>>)
adv_parent_dir(m, p) == take_component(m, p, "ParentDir", <<>>)

\* a variant that reports a mismatching component as exhausted input
adv_literal_string_mismatch_as_end(m, p, bytes) ==
    LET ns == next_string(m.state, p)
        m1 == [m EXCEPT !.state = ns.st]
    IN  IF ns.kind = "Normal" THEN
            IF starts_with(cur(m1), bytes)
            THEN next([m1 EXCEPT !.state.current_string = << DropBytes(cur(m1), Len(bytes)) >>,
                                 !.state.fresh_string = FALSE])
            ELSE end_of_input(m1)
        ELSE IF ns.kind = "NotNormal" THEN try_alternative(m1)
        ELSE end_of_input(m1)

adv_literal_string(m, p, bytes) ==
    LET ns == next_string(m.state, p)
        m1 == [m EXCEPT !.state = ns.st]
    IN  IF ns.kind = "Normal" THEN
            IF starts_with(cur(m1), bytes)
            THEN next([m1 EXCEPT !.state.current_string = << DropBytes(cur(m1), Len(bytes)) >>,
                                 !.state.fresh_string = FALSE])
            ELSE try_alternative(m1)
        ELSE IF ns.kind = "NotNormal" THEN try_alternative(m1)
        ELSE end_of_input(m1)

\* a variant that goes on into the next component when the current one is
\* used up
adv_any_character_across_boundary(m, p) ==
    LET spent == m.state.current_string = << <<>> >>
        ns == next_string(IF spent THEN [m.state EXCEPT !.current_string = <<>>] ELSE m.state, p)
        m1 == [m EXCEPT !.state = ns.st]
        length == length_of_first_char(cur(m1))
    IN  IF ns.kind = "Normal" THEN
            IF length # <<>>
            THEN next([m1 EXCEPT !.state.current_string = << DropBytes(cur(m1), length[1]) >>,
                                 !.state.fresh_string = FALSE])
            ELSE try_alternative(m1)
        ELSE IF ns.kind = "NotNormal" THEN try_alternative(m1)
        ELSE end_of_input(m1)

adv_any_character(m, p) ==
    LET ns == next_string(m.state, p)
        m1 == [m EXCEPT !.state = ns.st]
        length == length_of_first_char(cur(m1))
    IN  IF ns.kind = "Normal" THEN
            IF length # <<>>
            THEN next([m1 EXCEPT !.state.current_string = << DropBytes(cur(m1), length[1]) >>,
                                 !.state.fresh_string = FALSE])
            ELSE try_alternative(m1)
        ELSE IF ns.kind = "NotNormal" THEN try_alternative(m1)
        ELSE end_of_input(m1)

adv_any_string(m, p) ==
    LET ns == next_string(m.state, p)
        m1 == [m EXCEPT !.state = ns.st]
    IN  IF ns.kind = "Normal"
        THEN next([m1 EXCEPT !.state.current_string = << <<>> >>,
                             !.state.fresh_string = FALSE])
        ELSE IF ns.kind = "NotNormal" THEN try_alternative(m1)
        ELSE end_of_input(m1)

adv_jump(m, index) == [m |-> [m EXCEPT !.state.pc = index], ok |-> TRUE]

\* a variant that keeps only the latest snapshot
adv_alternative_latest_only(m, index) ==
    next([m EXCEPT !.alternatives = << [m.state EXCEPT !.pc = index] >>])

\* a variant whose snapshot starts its counters again from zero
adv_alternative_zeroed_counters(m, index) ==
    next([m EXCEPT !.alternatives =
            Append(@, [m.state EXCEPT !.pc = index,
                                      !.counters = [i \in 1..Len(m.state.counters) |-> 0]])])

adv_alternative(m, index) ==
    next([m EXCEPT !.alternatives = Append(@, [m.state EXCEPT !.pc = index])])

\* a variant that steps over Increment without adding to the counter
adv_increment_without_adding(m, counter_id) == next(m)

adv_increment(m, counter_id) ==
    next([m EXCEPT !.state.counters[counter_id + 1] = @ + 1])

adv_branch_if_less_than(m, index, counter_id, value) ==
    IF m.state.counters[counter_id + 1] < value
    THEN [m |-> [m EXCEPT !.state.pc = index], ok |-> TRUE]
    ELSE next(m)

\* Matcher::advance as a function of the matcher: the dispatch on the
\* instruction at pc; panicked when the instruction cannot be executed
advance(m, prog, p) ==
    LET i == prog[m.state.pc + 1]
        halt == [m |-> m, ok |-> FALSE, panicked |-> TRUE]
        ran(r) == [m |-> r.m, ok |-> r.ok, panicked |-> FALSE]
    IN  IF m.state.pc < 0 \/ m.state.pc >= Len(prog) THEN halt
        ELSE CASE i.op = "Separator" -> ran(adv_separator(m, p))
               [] i.op = "Prefix" -> ran(adv_prefix(m, p, i.bytes))
               [] i.op = "RootDir" -> ran(adv_root_dir(m, p))
               [] i.op = "CurDir" -> ran(adv_cur_dir(m, p))
               [] i.op = "ParentDir" -> ran(adv_parent_dir(m, p))
               [] i.op = "LiteralString" -> ran(adv_literal_string(m, p, i.bytes))
               [] i.op = "AnyCharacter" -> ran(adv_any_character(m, p))
               [] i.op = "AnyString" -> ran(adv_any_string(m, p))
               [] i.op = "Characters" -> halt
               [] i.op = "Jump" -> ran(adv_jump(m, i.off))
               [] i.op = "Alternative" -> ran(adv_alternative(m, i.off))
               [] i.op = "Increment" ->
                    IF i.ctr < Len(m.state.counters) THEN ran(adv_increment(m, i.ctr)) ELSE halt
               [] i.op = "BranchIfLessThan" ->
                    IF i.ctr < Len(m.state.counters)
                    THEN ran(adv_branch_if_less_than(m, i.off, i.ctr, i.val))
                    ELSE halt
               [] i.op = "Complete" -> ran(complete(m, p))

\* the loop of path_matches
RECURSIVE match_loop(_, _, _)
match_loop(m, prog, p) ==
    IF m.result.valid_as_prefix /\ m.result.valid_as_complete_match
    THEN [result |-> m.result, panicked |-> FALSE]
    ELSE LET r == advance(m, prog, p) IN
         IF r.panicked THEN [result |-> m.result, panicked |-> TRUE]
         ELSE IF ~r.ok THEN [result |-> r.m.result, panicked |-> FALSE]
         ELSE match_loop(r.m, prog, p)

\* path_matches(path, program) for a compiled Program record
path_matches(p, prog) ==
    match_loop([state |-> NewState(prog.counters), alternatives |-> <<>>, result |-> NoResult],
               prog.instructions, p)

----------------------------------------------------------------------------
(* The checked inputs: families of (pattern, path) pairs. *)

\* all sequences over S of length at most n
SeqsUpTo(S, n) == UNION { [1..k -> S] : k \in 0..n }

\* patterns of literal components joined by separators
RECURSIVE JoinLiterals(_)
JoinLiterals(lits) ==
    IF Len(lits) = 1 THEN << LiteralString(lits[1]) >>
    ELSE << LiteralString(lits[1]), Sep >> \o JoinLiterals(Tail(lits))

LiteralNames == {str_foo, str_bar}
LiteralPatterns == { JoinLiterals(l) : l \in SeqsUpTo(LiteralNames, MaxDepth) \ {<<>>} }
LiteralPaths ==
    SeqsUpTo({Normal(str_foo), Normal(str_bar), Normal(str_fo), Normal(str_foox),
              NonNormal("ParentDir")}, MaxDepth + 1)

\* the part of a pattern before a trailing separator and recurse
Heads ==
    { << LiteralString(str_foo) >>,
      << LiteralString(str_bar) >>,
      << LiteralString(str_foo), Sep, LiteralString(str_bar) >>,
      << Wildcard >>,
      << LiteralString(str_fo), AnyCharacter >>,
      << LiteralString(str_b), Wildcard >>,
      << Alternatives(<< <<LiteralString(str_foo)>>, <<LiteralString(str_baz)>> >>) >>,
      << Repeat(1, 2, << LiteralString(str_fo) >>) >>,
      << ParentDir >>,
      << Recurse >> }

RecursePatterns ==
    { << Recurse >> }
    \cup { h \o << Sep, Recurse >> : h \in Heads }
    \cup { << LiteralString(a), Sep, Recurse, Sep, LiteralString(b) >> :
             a \in LiteralNames, b \in LiteralNames }
RecursePaths ==
    SeqsUpTo({Normal(str_foo), Normal(str_bar), Normal(str_baz)}, MaxDepth + 2)
    \cup { << NonNormal("ParentDir") >> \o q :
             q \in SeqsUpTo({Normal(str_foo), Normal(str_bar)}, MaxDepth) }

RepeatBodies == {str_a, str_ab}
RepeatPatterns ==
    { << Repeat(lo, hi, << LiteralString(b) >>) >> :
        lo \in 0..MaxRepeat, hi \in 0..MaxRepeat, b \in RepeatBodies } 
RepeatPaths ==
    { << Normal(c) >> : c \in SeqsUpTo({97, 98}, MaxRepeat + 2) \ {<<>>} }
    \cup { <<>>, << Normal(str_a), Normal(str_a) >>, << Normal(str_ab), Normal(str_ab) >> }

\* a repeat of a repeat of `a`, with every pair of counts from 1 to
\* MaxRepeat, and repeats that follow or stand in a backtracking point; on
\* one-component paths
RepeatCounts == { c \in (1..MaxRepeat) \X (1..MaxRepeat) : c[1] <= c[2] }
NestedRepeat(outer, inner) ==
    << Repeat(outer[1], outer[2], << Repeat(inner[1], inner[2], << LiteralString(str_a) >>) >>) >>
NestedPatterns ==
    { NestedRepeat(outer, inner) : outer \in RepeatCounts, inner \in RepeatCounts }
    \cup { << Repeat(2, 2, << Repeat(1, 2, << LiteralString(str_a) >>), LiteralString(str_b) >>) >>,
           << Wildcard, Repeat(2, 2, << LiteralString(str_a) >>) >>,
           << Wildcard, Wildcard, Repeat(2, 2, << LiteralString(str_a) >>) >>,
           << Alternatives(<< << Repeat(2, 2, << LiteralString(str_a) >>) >>,
                              << LiteralString(str_ab) >> >>) >> }
RECURSIVE Times(_, _)
Times(bytes, n) == IF n = 0 THEN <<>> ELSE bytes \o Times(bytes, n - 1)
NestedPaths ==
    { << Normal(Times(str_a, n)) >> : n \in 1..(MaxRepeat * MaxRepeat + 1) }
    \cup { << Normal(c) >> : c \in SeqsUpTo({97, 98}, MaxRepeat + 1) \ {<<>>} }
    \cup { <<>> }

\* an optional literal, a wildcard, an optional literal; <<>> stands for an
\* absent literal
WildcardAffixes == {<<>>, str_a, str_b, str_ab}
WildcardPattern(P, S) ==
    (IF P = <<>> THEN <<>> ELSE << LiteralString(P) >>)
    \o << Wildcard >>
    \o (IF S = <<>> THEN <<>> ELSE << LiteralString(S) >>)
WildcardPatterns == { WildcardPattern(P, S) : P \in WildcardAffixes, S \in WildcardAffixes }
WildcardPaths ==
    { << Normal(c) >> : c \in SeqsUpTo({97, 98}, MaxDepth + 1) \ {<<>>} }
    \cup { << Normal(str_ea) >>, << Normal(str_xa) >>, << NonNormal("ParentDir") >> }
    \cup { << Normal(c), d >> :
              c \in {str_a, str_ab, str_b},
              d \in {Normal(str_a), Normal(str_b), Normal(str_ab), NonNormal("ParentDir")} }
    \cup { << Normal(str_a), Normal(str_b), Normal(str_ab) >> }

\* largest number of choices of an alternatives node
MaxChoices == 3

\* X {c1,...,cN} Y for 1 <= N <= MaxChoices
AlternativeChoices ==
    { << LiteralString(str_a) >>,
      << LiteralString(str_ab) >>,
      << Wildcard >>,
      << LiteralString(str_a), Sep, LiteralString(str_b) >> }
AlternativeHeads == { <<>>, << LiteralString(str_a) >> }
AlternativeTails == { <<>>, << LiteralString(str_b) >>, << Sep, LiteralString(str_b) >> }
AlternativePatterns ==
    { X \o << Alternatives(cs) >> \o Y :
        X \in AlternativeHeads,
        cs \in SeqsUpTo(AlternativeChoices, MaxChoices) \ {<<>>},
        Y \in AlternativeTails }
AlternativePaths ==
    { << Normal(c) >> : c \in SeqsUpTo({97, 98}, 3) \ {<<>>} }
    \cup { << Normal(c), Normal(d) >> : c \in {str_a, str_ab, str_b}, d \in {str_a, str_ab, str_b} }
    \cup { <<>> }

\* the pattern text `{file,dir}` and the paths `file`, `dir`, `fil`
FileOrDir == parse(<<123, 102, 105, 108, 101, 44, 100, 105, 114, 125>>)
FileOrDirPaths ==
    { << Normal(str_file) >>, << Normal(<<100, 105, 114>>) >>, << Normal(<<102, 105, 108>>) >> }

\* pattern texts with a character class: `[a-z]ile`, `[f0-9]`, `foo/[b]ar`
ClassTexts ==
    { <<91, 97, 45, 122, 93, 105, 108, 101>>,
      <<91, 102, 48, 45, 57, 93>>,
      <<102, 111, 111, 47, 91, 98, 93, 97, 114>> }
ClassPatterns == { parse(t) : t \in ClassTexts }
ClassPaths ==
    { <<>>, << Normal(str_file) >>, << Normal(str_foo) >>, << Normal(str_foo), Normal(str_bar) >> }

\* the pattern texts of the scenarios: `*baz`, `<a:2>`, `{file,dir}`,
\* `.hidden`, `./foo/..`, `/foo//bar/`
ScenarioTexts ==
    { <<42, 98, 97, 122>>,
      <<60, 97, 58, 50, 62>>,
      <<123, 102, 105, 108, 101, 44, 100, 105, 114, 125>>,
      <<46, 104, 105, 100, 100, 101, 110>>,
      <<46, 47, 102, 111, 111, 47, 46, 46>>,
      <<47, 102, 111, 111, 47, 47, 98, 97, 114, 47>> }

\* patterns that exercise the remaining node kinds
OtherPatterns ==
    { parse(t) : t \in ScenarioTexts } \cup
    { <<>>,
      << Prefix(str_C), RootDir, LiteralString(str_foo) >>,
      << RootDir, LiteralString(str_foo) >>,
      << CurDir, Sep, LiteralString(str_foo) >>,
      << ParentDir, Sep, ParentDir, Sep, Wildcard >>,
      << AnyCharacter, LiteralString(str_a) >>,
      << Wildcard, LiteralString(str_a) >>,
      << LiteralString(str_foo), Sep, Sep, LiteralString(str_bar) >>,
      << Alternatives(<< <<LiteralString(str_foo)>>, <<Wildcard, LiteralString(str_a)>>,
                         <<CurDir>> >>) >> }
OtherPaths ==
    SeqsUpTo({Normal(str_foo), Normal(str_bar), Normal(str_ea), Normal(str_xa),
              Normal(str_a), NonNormal("ParentDir")}, MaxDepth)
    \cup { << [kind |-> "Prefix", bytes |-> str_C], NonNormal("RootDir"), Normal(str_foo) >>,
           << NonNormal("RootDir"), Normal(str_foo) >>,
           << NonNormal("RootDir") >>,
           << NonNormal("CurDir"), Normal(str_foo) >>,
           << NonNormal("CurDir") >> }

\* the pattern texts `{*,[a]}` and `{[a],*}`: a wildcard and a character
\* class as the choices of one Alternatives node, in both orders
ClassChoiceTexts ==
    { <<123, 42, 44, 91, 97, 93, 125>>,
      <<123, 91, 97, 93, 44, 42, 125>> }
ClassChoicePatterns == { parse(t) : t \in ClassChoiceTexts }

\* the pattern text `a**`, whose `**` follows other text of its component
RecurseInText == parse(<<97, 42, 42>>)
RecurseInTextPaths ==
    { << Normal(str_a) >>, << Normal(str_a), Normal(str_b) >>, << Normal(str_ab), Normal(str_b) >> }

Inputs ==
    (LiteralPatterns \X LiteralPaths)
    \cup (RecursePatterns \X RecursePaths)
    \cup (RepeatPatterns \X RepeatPaths)
    \cup (ClassPatterns \X ClassPaths)
    \cup (WildcardPatterns \X WildcardPaths)
    \cup (AlternativePatterns \X AlternativePaths)
    \cup ({FileOrDir} \X FileOrDirPaths)
    \cup (NestedPatterns \X NestedPaths)
    \cup (OtherPatterns \X OtherPaths)
    \cup (ClassChoicePatterns \X {<<>>})
    \cup ({RecurseInText} \X RecurseInTextPaths)

----------------------------------------------------------------------------
(* path_matches as a state machine: one action per instruction kind, each  *)
(* one call of Matcher::advance followed by the loop test of path_matches. *)

Matcher == [state |-> state, alternatives |-> alternatives, result |-> result]

\* the instruction at pc; offsets count from 0
Fetching(op) ==
    /\ phase = "running"
    /\ state.pc >= 0 /\ state.pc < Len(program)
    /\ program[state.pc + 1].op = op

instr == program[state.pc + 1]

\* store what advance() left and evaluate `while !prefix || !complete`
\* together with `if !advance() { break }`
Commit(r) ==
    /\ state' = r.m.state
    /\ alternatives' = r.m.alternatives
    /\ result' = r.m.result
    /\ phase' = IF r.ok /\ ~(r.m.result.valid_as_prefix /\ r.m.result.valid_as_complete_match)
                THEN "running"
                ELSE "returned"
    /\ UNCHANGED <<source, remaining, ast, run, pattern, appended, program, counters, path, glob_vars>>

\* no walk is going on: glob has not been called
NoWalk ==
    /\ fs = <<>>
    /\ cwd = <<>>
    /\ root = <<>>
    /\ tasks = {}
    /\ tx = <<>>
    /\ rx = "open"
    /\ received = <<>>

Init ==
    \E inp \in Inputs :
        /\ source = <<>>
        /\ remaining = <<>>
        /\ ast = <<>>
        /\ run = 0
        /\ pattern = inp[1]
        /\ path = inp[2]
        /\ appended = Len(inp[1])
        /\ program = compile(inp[1]).instructions
        /\ counters = compile(inp[1]).counters
        /\ state = NewState(compile(inp[1]).counters)
        /\ alternatives = <<>>
        /\ result = NoResult
        /\ phase = IF compile(inp[1]).err THEN "compile_error" ELSE "running"
        /\ NoWalk

AdvSeparator == Fetching("Separator") /\ Commit(adv_separator(Matcher, path))
AdvPrefix == Fetching("Prefix") /\ Commit(adv_prefix(Matcher, path, instr.bytes))
AdvRootDir == Fetching("RootDir") /\ Commit(adv_root_dir(Matcher, path))
AdvCurDir == Fetching("CurDir") /\ Commit(adv_cur_dir(Matcher, path))
AdvParentDir == Fetching("ParentDir") /\ Commit(adv_parent_dir(Matcher, path))
AdvLiteralString == Fetching("LiteralString") /\ Commit(adv_literal_string(Matcher, path, instr.bytes))
AdvAnyCharacter == Fetching("AnyCharacter") /\ Commit(adv_any_character(Matcher, path))
AdvAnyString == Fetching("AnyString") /\ Commit(adv_any_string(Matcher, path))
AdvJump == Fetching("Jump") /\ Commit(adv_jump(Matcher, instr.off))
AdvAlternative == Fetching("Alternative") /\ Commit(adv_alternative(Matcher, instr.off))
AdvIncrement ==
    /\ Fetching("Increment")
    /\ instr.ctr < Len(state.counters)
    /\ Commit(adv_increment(Matcher, instr.ctr))
AdvBranchIfLessThan ==
    /\ Fetching("BranchIfLessThan")
    /\ instr.ctr < Len(state.counters)
    /\ Commit(adv_branch_if_less_than(Matcher, instr.off, instr.ctr, instr.val))
AdvComplete == Fetching("Complete") /\ Commit(complete(Matcher, path))

\* advance() panics: Instruction::Characters is todo!(), and an instruction
\* or counter index outside its vector is an out-of-bounds panic
Panics ==
    \/ state.pc < 0 \/ state.pc >= Len(program)
    \/ program[state.pc + 1].op = "Characters"
    \/ /\ program[state.pc + 1].op \in {"Increment", "BranchIfLessThan"}
       /\ program[state.pc + 1].ctr >= Len(state.counters)

AdvPanic ==
    /\ phase = "running"
    /\ Panics
    /\ phase' = "panicked"
    /\ UNCHANGED <<source, remaining, ast, run, pattern, appended, program, counters, path, state,
                   alternatives, result, glob_vars>>

Next ==
    \/ AdvSeparator
    \/ AdvPrefix
    \/ AdvRootDir
    \/ AdvCurDir
    \/ AdvParentDir
    \/ AdvLiteralString
    \/ AdvAnyCharacter
    \/ AdvAnyString
    \/ AdvJump
    \/ AdvAlternative
    \/ AdvIncrement
    \/ AdvBranchIfLessThan
    \/ AdvComplete
    \/ AdvPanic

Spec == Init /\ [][Next]_vars

\* the loop of path_matches calls advance again and again with nothing in
\* between, so a step that can be taken is taken
MatchLive == Spec /\ WF_vars(Next)

----------------------------------------------------------------------------
(* parse as a state machine: one action per iteration of the loop of the   *)
(* outermost parse_nodes, and one for its end.                             *)

\* longest text of the exhaustively enumerated inputs
MaxText == 3

\* the bytes of the short texts: { } , < : > [ ] * . / a 2
TextAlphabet == {123, 125, 44, 60, 58, 62, 91, 93, 42, 46, 47, 97, 50}
ShortTexts == SeqsUpTo(TextAlphabet, MaxText)

\* pattern texts around the constructs of the grammar: `?a`, `a?b`, `**`,
\* `a**`, `a/**/b`, `a\*`, `{a,b`, `{a,*`, `{a,?}b{`, `[a-`, `[ab`, `[*`,
\* `<a`, `<a:`, `<a:2`, `<*:x>`, `<a:1,>`, `<a:,2>`, `<?:2`, `{a,{b,c}}`,
\* `<{a,b}:2>`, `{<a:1,2>,b}`, `{a,<b:2}`, `<{a:2>`, `a{./x,b}`, `a<.:2>`,
\* `a/{..,b}`, `{.,..}`, `..x`, `../a/./b`, `a/..`, `a.`, `/..`, `<a:3,2>`,
\* `<a:+3,2>`, `<a:1,2>`, `<a:0>`, `<a:+2>`, `<a:-1>`, `\xffa`, `[\xffa]`,
\* `<a:\xff>`, `[é-z]`, `*\xc3`
ConstructTexts ==
    { <<63, 97>>,
      <<97, 63, 98>>,
      <<42, 42>>,
      <<97, 42, 42>>,
      <<97, 47, 42, 42, 47, 98>>,
      <<97, 92, 42>>,
      <<123, 97, 44, 98>>,
      <<123, 97, 44, 42>>,
      <<123, 97, 44, 63, 125, 98, 123>>,
      <<91, 97, 45>>,
      <<91, 97, 98>>,
      <<91, 42>>,
      <<60, 97>>,
      <<60, 97, 58>>,
      <<60, 97, 58, 50>>,
      <<60, 42, 58, 120, 62>>,
      <<60, 97, 58, 49, 44, 62>>,
      <<60, 97, 58, 44, 50, 62>>,
      <<60, 63, 58, 50>>,
      <<123, 97, 44, 123, 98, 44, 99, 125, 125>>,
      <<60, 123, 97, 44, 98, 125, 58, 50, 62>>,
      <<123, 60, 97, 58, 49, 44, 50, 62, 44, 98, 125>>,
      <<123, 97, 44, 60, 98, 58, 50, 125>>,
      <<60, 123, 97, 58, 50, 62>>,
      <<97, 123, 46, 47, 120, 44, 98, 125>>,
      <<97, 60, 46, 58, 50, 62>>,
      <<97, 47, 123, 46, 46, 44, 98, 125>>,
      <<123, 46, 44, 46, 46, 125>>,
      <<46, 46, 120>>,
      <<46, 46, 47, 97, 47, 46, 47, 98>>,
      <<97, 47, 46, 46>>,
      <<97, 46>>,
      <<47, 46, 46>>,
      <<60, 97, 58, 51, 44, 50, 62>>,
      <<60, 97, 58, 43, 51, 44, 50, 62>>,
      <<60, 97, 58, 49, 44, 50, 62>>,
      <<60, 97, 58, 48, 62>>,
      <<60, 97, 58, 43, 50, 62>>,
      <<60, 97, 58, 45, 49, 62>>,
      <<255, 97>>,
      <<91, 255, 97, 93>>,
      <<60, 97, 58, 255, 62>>,
      <<91, 195, 169, 45, 122, 93>>,
      <<42, 195>> }

ParseTexts == ShortTexts \cup ConstructTexts \cup ClassTexts \cup ScenarioTexts

\* before parse is called
ParseInit ==
    /\ source = <<>>
    /\ remaining = <<>>
    /\ ast = <<>>
    /\ run = 0
    /\ pattern = <<>>
    /\ appended = 0
    /\ program = <<>>
    /\ counters = 0
    /\ path = <<>>
    /\ state = NewState(0)
    /\ alternatives = <<>>
    /\ result = NoResult
    /\ phase = "start"
    /\ NoWalk

\* parse(string) up to the call of parse_nodes: the leading Prefix and
\* RootDir components become nodes, the other components are joined again
ParseCall ==
    \E t \in ParseTexts :
        /\ phase = "start"
        /\ source' = t
        /\ remaining' = join(components(t).relative)
        /\ ast' = IF components(t).has_root THEN << RootDir >> ELSE <<>>
        /\ phase' = "parsing"
        /\ UNCHANGED <<run, pattern, appended, program, counters, path, state, alternatives, result, glob_vars>>

\* `while !string.is_empty() && cond(string)` with cond = |_| true
Parsing == phase = "parsing" /\ remaining # <<>>

\* the body of the loop: string = next_node(string, out); next_node panics
\* when no recogniser answers Ok
NextNode ==
    \E r \in { next_node(remaining, ast) } :
    /\ Parsing
    /\ r.ok
    /\ remaining' = r.string
    /\ ast' = r.out
    /\ UNCHANGED <<source, run, pattern, appended, program, counters, path, state, alternatives, result,
                   phase, glob_vars>>

\* the loop ends and parse returns Pattern { nodes }
ParseReturn ==
    /\ phase = "parsing"
    /\ remaining = <<>>
    /\ phase' = "parsed"
    /\ pattern' = ast
    /\ UNCHANGED <<source, remaining, ast, run, appended, program, counters, path, state, alternatives,
                   result, glob_vars>>

ParseNext ==
    \/ ParseCall
    \/ NextNode
    \/ ParseReturn

ParseSpec == ParseInit /\ [][ParseNext]_vars

\* parse runs to its end once called: no step of it waits for anything
ParseLive == ParseSpec /\ WF_vars(ParseNext)

----------------------------------------------------------------------------
(* compile as a state machine: one action per iteration of its loop over   *)
(* pattern.nodes, one for the `?` that returns the error, one for its end. *)

\* `<:1>`, the smallest Repeat node parse produces
EmptyRepeat == Repeat(1, 1, <<>>)

\* a pattern of n nodes `<:1>`
RepeatRun(n) == [i \in 1..n |-> EmptyRepeat]

\* the instructions append_repeat has pushed for RepeatRun(n): the i-th
\* node gives Increment(i - 1) at offset 2(i - 1) and the branch back to it
RepeatRunProgram(n) ==
    [k \in 1..(2 * n) |->
        IF k % 2 = 1 THEN I_Increment((k - 1) \div 2)
        ELSE I_BranchIfLessThan(k - 2, (k - 2) \div 2, 1)]

\* how many nodes `<:1>` the pattern starts with: none, a few, and the
\* numbers around the counter budget
RunLengths == {0, 1, U16_MAX - 1, U16_MAX}

\* the runs and their programs, computed once
RepeatRuns == [n \in RunLengths |-> RepeatRun(n)]
RepeatRunPrograms == [n \in RunLengths |-> RepeatRunProgram(n)]

MaxTail == 2

\* the nodes after the run: with no Repeat, with one, with a nested pair
\* and with a pair inside the choices of an Alternatives
TailNodes ==
    { LiteralString(str_a),
      Wildcard,
      EmptyRepeat,
      Repeat(1, 2, << EmptyRepeat >>),
      Alternatives(<< << EmptyRepeat >>, << Repeat(0, 1, << LiteralString(str_a) >>) >> >>) }

CompileTails == SeqsUpTo(TailNodes, MaxTail)

\* The loop of compile after it has appended the leading run of a pattern.
\* The nodes of the run and their instructions are all alike, so the state
\* holds their number and the actions work on the whole vectors.
CompileInit ==
    \E n \in RunLengths, t \in CompileTails :
        /\ source = <<>>
        /\ remaining = <<>>
        /\ ast = <<>>
        /\ run = n
        /\ pattern = t
        /\ appended = n
        /\ program = <<>>
        /\ counters = n
        /\ path = <<>>
        /\ state = NewState(0)
        /\ alternatives = <<>>
        /\ result = NoResult
        /\ phase = "compiling"
        /\ NoWalk

\* pattern.nodes and program.instructions, the leading run included
FullPattern == RepeatRuns[run] \o pattern
FullProgram == RepeatRunPrograms[run] \o program

\* `let mut program`, as far as the loop has built it
Building ==
    [instructions |-> FullProgram, counters |-> counters, absolute_prefix |-> <<>>, err |-> FALSE]

\* `for node in &pattern.nodes`
Compiling == phase = "compiling" /\ appended < Len(FullPattern)

\* append_program(&mut program, node) returns Ok
AppendProgram ==
    /\ Compiling
    /\ \E o \in { append_program(Building, FullPattern[appended + 1]) } :
        /\ ~o.err
        /\ program' = SubSeq(o.instructions, 2 * run + 1, Len(o.instructions))
        /\ counters' = o.counters
        /\ appended' = appended + 1
    /\ UNCHANGED <<source, remaining, ast, run, pattern, path, state, alternatives, result, phase, glob_vars>>

\* append_program(&mut program, node)? returns the error out of compile
CompileError ==
    /\ Compiling
    /\ append_program(Building, FullPattern[appended + 1]).err
    /\ phase' = "compile_error"
    /\ UNCHANGED <<source, remaining, ast, run, pattern, appended, program, counters, path, state,
                   alternatives, result, glob_vars>>

\* program.instructions.push(Instruction::Complete); Ok(program)
CompileReturn ==
    /\ phase = "compiling"
    /\ appended = Len(FullPattern)
    /\ program' = Append(program, Instr("Complete"))
    /\ phase' = "compiled"
    /\ UNCHANGED <<source, remaining, ast, run, pattern, appended, counters, path, state, alternatives,
                   result, glob_vars>>

\* RepeatRunProgram is what the compiler's loop makes of RepeatRun
RepeatRunCompiled ==
    \A n \in 0..16 :
        append_nodes(EmptyProgram, RepeatRun(n))
            = [EmptyProgram EXCEPT !.instructions = RepeatRunProgram(n), !.counters = n]

\* appending a node leaves the instructions of the leading run as they are,
\* which is what lets the state leave them out
RunKept ==
    Compiling =>
        \E o \in { append_program(Building, FullPattern[appended + 1]) } :
            o.err \/ SubSeq(o.instructions, 1, 2 * run) = RepeatRunPrograms[run]

CompileNext ==
    \/ AppendProgram
    \/ CompileError
    \/ CompileReturn

CompileSpec == CompileInit /\ [][CompileNext]_vars

----------------------------------------------------------------------------
(* The walker (globber.rs). glob spawns glob_to on the start directory;    *)
(* every call of glob_to is a task that some worker thread runs, and the   *)
(* tasks run in any interleaving. Paths are sequences of components, as    *)
(* path_matches takes them; files are named by the sequence of names from  *)
(* the root of the file system.                                            *)

\* sync_channel(4096)
ChannelBound == 4096

\* Path::join with one more component
path_join(p, c) == Append(p, c)

\* path.strip_prefix(base).unwrap_or(path)
strip_prefix_or(p, base) ==
    IF Len(base) <= Len(p) /\ SubSeq(p, 1, Len(base)) = base
    THEN SubSeq(p, Len(base) + 1, Len(p))
    ELSE p

\* the absolute path of a file
AbsPath(at) == << NonNormal("RootDir") >> \o [k \in 1..Len(at) |-> Normal(at[k])]

IsDir(at) == at \in DOMAIN fs.tree /\ fs.tree[at] = "dir"

\* the file a path leads to from a directory, as the system calls of
\* fs::read_dir and fs::metadata find it: <<>> for none, <<file>> else
RECURSIVE resolve_from(_, _)
resolve_from(at, p) ==
    IF p = <<>> THEN << at >>
    ELSE IF ~IsDir(at) THEN <<>>
    ELSE LET c == Head(p) IN
         CASE c.kind = "RootDir" -> resolve_from(<<>>, Tail(p))
           [] c.kind = "CurDir" -> resolve_from(at, Tail(p))
           [] c.kind = "ParentDir" ->
                resolve_from(IF at = <<>> THEN <<>> ELSE SubSeq(at, 1, Len(at) - 1), Tail(p))
           [] c.kind = "Normal" ->
                IF Append(at, c.bytes) \in DOMAIN fs.tree
                THEN resolve_from(Append(at, c.bytes), Tail(p))
                ELSE <<>>
           [] OTHER -> <<>>

\* a relative path is taken from the working directory of the process; the
\* empty path names no file
resolve(p) == IF p = <<>> THEN <<>> ELSE resolve_from(cwd, p)

\* fs::read_dir(target): <<>> for Err, << directory read >> for Ok
read_dir(p) ==
    LET d == resolve(p) IN
    IF d # <<>> /\ IsDir(d[1]) /\ d[1] \notin fs.unreadable THEN d ELSE <<>>

\* the items of the listing of a directory: one per file in it, and one
\* Err item where the listing fails on an entry
Listing(d) ==
    { [err |-> FALSE, name |-> at[Len(at)]] :
        at \in { f \in DOMAIN fs.tree : Len(f) = Len(d) + 1 /\ SubSeq(f, 1, Len(d)) = d } }
    \cup (IF d \in fs.failing THEN { [err |-> TRUE, name |-> <<>>] } ELSE {})

\* fs::metadata(path).is_ok_and(|m| m.is_dir())
metadata_is_dir(p) == resolve(p) # <<>> /\ IsDir(resolve(p)[1])

\* the compiled program the walker shares
Program == compile(pattern)

\* glob: the start directory and the base that candidates are made
\* relative to
current_dir == IF Program.absolute_prefix # <<>> THEN Program.absolute_prefix[1] ELSE root
output_relative_to == IF Program.absolute_prefix # <<>> THEN <<>> ELSE current_dir

\* a call of glob_to that has been spawned and not yet started
Spawned(p) == [target |-> p, stage |-> "spawned", dir |-> <<>>, parent |-> FALSE, todo |-> {}]

OkItem(p) == [ok |-> TRUE, path |-> p]
ErrItem(p) == [ok |-> FALSE, path |-> p]

\* a variant that recurses on the prefix bit alone
handle_path_candidate_without_stat(p, dir_flag) ==
    LET path_candidate == strip_prefix_or(p, output_relative_to)
        r == path_matches(path_candidate, Program).result
    IN  [path_candidate |-> path_candidate,
         recurse |-> r.valid_as_prefix,
         send |-> r.valid_as_complete_match]

\* handle_path_candidate up to its two decisions
handle_path_candidate(p, dir_flag) ==
    LET path_candidate == strip_prefix_or(p, output_relative_to)
        r == path_matches(path_candidate, Program).result
    IN  [path_candidate |-> path_candidate,
         recurse |-> r.valid_as_prefix /\ dir_flag,
         send |-> r.valid_as_complete_match]

\* the file systems, working directories, roots and patterns of the walks
WalkTree ==
    (<<>> :> "dir") @@ (<< str_a >> :> "dir") @@ (<< str_b >> :> "file")
    @@ (<< str_a, str_a >> :> "file") @@ (<< str_a, str_b >> :> "dir")
    @@ (<< str_a, str_b, str_a >> :> "file")

FileSystems ==
    { [tree |-> WalkTree, unreadable |-> u, failing |-> f] :
        u \in { {}, { << str_a, str_b >> } }, f \in { {}, { << str_a >> } } }

\* <<working directory, root>>: the root main passes (the working
\* directory as an absolute path), `.`, and roots that are not the working
\* directory, absolute and relative
WalkRoots ==
    { << <<>>, AbsPath(<<>>) >>,
      << << str_a >>, AbsPath(<< str_a >>) >>,
      << <<>>, << NonNormal("CurDir") >> >>,
      << <<>>, AbsPath(<< str_a >>) >>,
      << <<>>, << Normal(str_a) >> >> }

\* `*`, `a/*`, `*/*`, `a/b/a`, `../*`, `/a/*`, `**/a`
WalkTexts ==
    { <<42>>, <<97, 47, 42>>, <<42, 47, 42>>, <<97, 47, 98, 47, 97>>, <<46, 46, 47, 42>>,
      <<47, 97, 47, 42>>, <<42, 42, 47, 97>> }

\* glob has returned the iterator and spawned glob_to on the start directory
GlobInit ==
    \E files \in FileSystems, wr \in WalkRoots, t \in WalkTexts :
        /\ source = t
        /\ remaining = <<>>
        /\ ast = <<>>
        /\ run = 0
        /\ pattern = parse(t)
        /\ appended = Len(parse(t))
        /\ program = compile(parse(t)).instructions
        /\ counters = compile(parse(t)).counters
        /\ path = <<>>
        /\ state = NewState(0)
        /\ alternatives = <<>>
        /\ result = NoResult
        /\ phase = "walking"
        /\ fs = files
        /\ cwd = wr[1]
        /\ root = wr[2]
        /\ tasks = { Spawned(IF compile(parse(t)).absolute_prefix # <<>>
                             THEN compile(parse(t)).absolute_prefix[1] ELSE wr[2]) }
        /\ tx = <<>>
        /\ rx = "open"
        /\ received = <<>>

\* tx.send(item): Ok when the consumer's end is open (and there is room),
\* Err when it has been dropped
CanSend == rx = "dropped" \/ Len(tx) < ChannelBound
Sent(item) == IF rx = "open" THEN Append(tx, item) ELSE tx

\* fs::read_dir(target) is Err: the error is sent, a failing send ignored
ReadDirErr ==
    \E w \in tasks :
        /\ phase = "walking"
        /\ w.stage = "spawned"
        /\ read_dir(w.target) = <<>>
        /\ CanSend
        /\ tx' = Sent(ErrItem(w.target))
        /\ tasks' = tasks \ {w}
        /\ UNCHANGED <<core_vars, fs, cwd, root, rx, received>>

\* fs::read_dir(target) is Ok: the scope is opened
ReadDirOk ==
    \E w \in tasks :
        /\ phase = "walking"
        /\ w.stage = "spawned"
        /\ read_dir(w.target) # <<>>
        /\ tasks' = (tasks \ {w})
                        \cup { [w EXCEPT !.stage = "running",
                                         !.dir = read_dir(w.target)[1],
                                         !.parent = TRUE,
                                         !.todo = Listing(read_dir(w.target)[1])] }
        /\ UNCHANGED <<core_vars, fs, cwd, root, tx, rx, received>>

\* a variant in which the loop over the listing ends at the first result
after_entry_break(w, e) == [w EXCEPT !.todo = {}]

\* the for loop goes on to the next result of the listing
after_entry(w, e) == [w EXCEPT !.todo = @ \ {e}]

\* a call of handle_path_candidate by task w, which goes on as after; a
\* failing send ends the task's closure, what it has spawned stays
Handle(w, after, h) ==
    LET spawned == IF h.recurse THEN { Spawned(h.path_candidate) } ELSE {} IN
    /\ h.send => CanSend
    /\ IF h.send /\ rx = "dropped"
       THEN tasks' = (tasks \ {w}) \cup spawned /\ tx' = tx
       ELSE /\ tasks' = (tasks \ {w}) \cup {after} \cup spawned
            /\ tx' = IF h.send THEN Append(tx, OkItem(h.path_candidate)) ELSE tx
    /\ UNCHANGED <<core_vars, fs, cwd, root, rx, received>>

\* the candidate `target/..`, before the listing
HandleParent ==
    \E w \in tasks :
        /\ phase = "walking"
        /\ w.stage = "running"
        /\ w.parent
        /\ LET parent_path == path_join(w.target, NonNormal("ParentDir")) IN
           Handle(w, [w EXCEPT !.parent = FALSE],
                  handle_path_candidate(parent_path, metadata_is_dir(parent_path)))

\* an Ok(dir_entry) of the listing
HandleEntry ==
    \E w \in tasks :
        /\ phase = "walking"
        /\ w.stage = "running"
        /\ ~w.parent
        /\ \E e \in w.todo :
            /\ ~e.err
            /\ Handle(w, after_entry(w, e),
                      handle_path_candidate(path_join(w.target, Normal(e.name)),
                                            IsDir(Append(w.dir, e.name))))

\* an Err of the listing: tx.send(Err(..))?
EntryErr ==
    \E w \in tasks :
        /\ phase = "walking"
        /\ w.stage = "running"
        /\ ~w.parent
        /\ \E e \in w.todo :
            /\ e.err
            /\ CanSend
            /\ IF rx = "dropped"
               THEN tasks' = tasks \ {w} /\ tx' = tx
               ELSE /\ tasks' = (tasks \ {w}) \cup { after_entry(w, e) }
                    /\ tx' = Append(tx, ErrItem(w.target))
        /\ UNCHANGED <<core_vars, fs, cwd, root, rx, received>>

\* the listing is used up: the closure returns Ok(()) and glob_to ends
GlobToReturn ==
    \E w \in tasks :
        /\ phase = "walking"
        /\ w.stage = "running"
        /\ ~w.parent
        /\ w.todo = {}
        /\ tasks' = tasks \ {w}
        /\ UNCHANGED <<core_vars, fs, cwd, root, tx, rx, received>>

\* the consumer takes the next item of the iterator
Recv ==
    /\ phase = "walking"
    /\ rx = "open"
    /\ tx # <<>>
    /\ received' = Append(received, Head(tx))
    /\ tx' = Tail(tx)
    /\ UNCHANGED <<core_vars, fs, cwd, root, tasks, rx>>

\* the consumer drops the iterator; what is in the channel is dropped too
HangUp ==
    /\ phase = "walking"
    /\ rx = "open"
    /\ rx' = "dropped"
    /\ tx' = <<>>
    /\ UNCHANGED <<core_vars, fs, cwd, root, tasks, received>>

GlobNext ==
    \/ ReadDirErr
    \/ ReadDirOk
    \/ HandleParent
    \/ HandleEntry
    \/ EntryErr
    \/ GlobToReturn
    \/ Recv
    \/ HangUp

GlobSpec == GlobInit /\ [][GlobNext]_vars

----------------------------------------------------------------------------
(* Properties. *)

Returned == phase = "returned"
IsComplete == result.valid_as_complete_match
IsPrefix == result.valid_as_prefix

AllNormal(p) == \A i \in 1..Len(p) : p[i].kind = "Normal"

\* a code point accepted by a class set: equal to a Single entry or inside
\* an inclusive Range entry
ClassAccepts(classes, ch) ==
    \E i \in 1..Len(classes) : classes[i].lo <= ch /\ ch <= classes[i].hi

\* the first scalar of a byte string, -1 when it starts with none
FirstChar(s) == IF ScalarLen(s) = 0 THEN -1 ELSE ScalarValue(s)

\* the AST of the pattern text `[a-z]ile`
ClassPattern == parse(<<91, 97, 45, 122, 93, 105, 108, 101>>)

\* C1: path_matches returns a MatchResult for every path and every compiled
\* pattern, character classes included: no run of the matcher panics.
C1_NeverPanics == phase # "panicked"

\* C2: a Characters instruction advances the cursor by exactly one character
\* when that character is accepted by the class set and backtracks otherwise.
C2_CharactersStep ==
    [][Fetching("Characters") =>
        LET ns == next_string(state, path) IN
        IF /\ ns.kind = "Normal"
           /\ ns.st.current_string[1] # <<>>
           /\ ClassAccepts(instr.classes, FirstChar(ns.st.current_string[1]))
        THEN /\ phase' = "running"
             /\ state'.pc = state.pc + 1
             /\ state'.current_string =
                  << DropBytes(ns.st.current_string[1],
                               length_of_first_char(ns.st.current_string[1])[1]) >>
        ELSE /\ phase' # "panicked"
             /\ Len(alternatives') < Len(alternatives) \/ phase' = "returned"]_vars

\* C2, the scenario of the table: `[a-z]ile` on `file` is a complete match.
C2_ClassScenario ==
    (pattern = ClassPattern /\ path = << Normal(str_file) >> /\ phase # "running")
        => (Returned /\ IsComplete)

IsRepeatOfLiteral(pat) ==
    /\ Len(pat) = 1
    /\ pat[1].type = "Repeat"
    /\ pat[1].min <= pat[1].max
    /\ Len(pat[1].pattern) = 1
    /\ pat[1].pattern[1].type = "LiteralString"

\* the path made of k copies of L in one component (no component for k = 0)
KCopies(p, L, k) == IF k = 0 THEN p = <<>> ELSE p = << Normal(Copies(L, k)) >>

\* C3: Repeat{min, max, [LiteralString L]} with min <= max is a complete
\* match exactly of the paths made of k copies of L, min <= k <= max
\* (k = 0, the empty path, included when min = 0).
C3_RepeatBounds ==
    (Returned /\ IsRepeatOfLiteral(pattern)) =>
        (IsComplete <=>
            \E k \in pattern[1].min .. pattern[1].max :
                KCopies(path, pattern[1].pattern[1].bytes, k))

\* C4: the pattern `**` alone yields complete and prefix for every path of
\* zero or more normal components.
C4_RecurseAlone ==
    (Returned /\ pattern = << Recurse >> /\ AllNormal(path)) => (IsComplete /\ IsPrefix)

IsTrailingRecurse(pat) ==
    /\ Len(pat) = 3
    /\ pat[1].type = "LiteralString"
    /\ pat[2] = Sep
    /\ pat[3] = Recurse

\* C5: `L/**` yields complete and prefix for every path whose first component
\* is L, followed by zero or more normal components.
C5_TrailingRecurse ==
    (/\ Returned
     /\ IsTrailingRecurse(pattern)
     /\ Len(path) >= 1
     /\ path[1] = Normal(pattern[1].bytes)
     /\ AllNormal(path)) => (IsComplete /\ IsPrefix)

EndsInSepRecurse(pat) ==
    /\ Len(pat) >= 3
    /\ pat[Len(pat) - 1] = Sep
    /\ pat[Len(pat)] = Recurse

\* the path q is a complete match of the part of pat before `/**`
HeadMatches(pat, q) ==
    LET r == path_matches(q, compile(SubSeq(pat, 1, Len(pat) - 2))) IN
    ~r.panicked /\ r.result.valid_as_complete_match

\* the path is a match of the head of pat followed by normal components
BelowHead(pat, p, n) ==
    /\ HeadMatches(pat, SubSeq(p, 1, n))
    /\ AllNormal(SubSeq(p, n + 1, Len(p)))

\* C6: for a pattern ending in Separator, Recurse, every path that matches
\* the part before the separator, extended by zero or more normal
\* components, yields prefix.
C6_TrailingRecursePrefix ==
    (Returned /\ EndsInSepRecurse(pattern)) =>
        \A n \in 0..Len(path) : BelowHead(pattern, path, n) => IsPrefix

C6_Witness ==
    /\ Returned
    /\ EndsInSepRecurse(pattern)
    /\ pattern[1].type = "Wildcard"
    /\ Len(path) = 3
    /\ BelowHead(pattern, path, 1)
    /\ IsPrefix

IsInfixRecurse(pat) ==
    /\ Len(pat) = 5
    /\ pat[1].type = "LiteralString"
    /\ pat[2] = Sep
    /\ pat[3] = Recurse
    /\ pat[4] = Sep
    /\ pat[5].type = "LiteralString"

\* the path A/x1/.../xn/B of normal components, n >= 0
InfixPath(pat, p) ==
    /\ Len(p) >= 2
    /\ AllNormal(p)
    /\ p[1] = Normal(pat[1].bytes)
    /\ p[Len(p)] = Normal(pat[5].bytes)

C8_InfixPartial ==
    (/\ Returned
     /\ IsInfixRecurse(pattern)
     /\ Len(path) >= 1
     /\ AllNormal(path)
     /\ path[1] = Normal(pattern[1].bytes)
     /\ ~InfixPath(pattern, path)) => (IsPrefix /\ ~IsComplete)

C8_Witness ==
    /\ Returned
    /\ IsInfixRecurse(pattern)
    /\ Len(path) = 2
    /\ AllNormal(path)
    /\ path[1] = Normal(pattern[1].bytes)
    /\ ~InfixPath(pattern, path)
    /\ IsPrefix /\ ~IsComplete

\* C9: the empty pattern yields complete and not prefix on the empty path
\* and neither on every other path.
C9_EmptyPattern ==
    (phase # "running" /\ pattern = <<>>) =>
        /\ Returned
        /\ IsComplete <=> (path = <<>>)
        /\ ~IsPrefix

C9_Witness == Returned /\ pattern = <<>> /\ path = <<>> /\ IsComplete /\ ~IsPrefix

IsLiteralPattern(pat) ==
    /\ Len(pat) % 2 = 1
    /\ \A i \in 1..Len(pat) :
          IF i % 2 = 1 THEN pat[i].type = "LiteralString" ELSE pat[i] = Sep

\* the literals of a literal pattern, one per component
LiteralsOf(pat) == [i \in 1..((Len(pat) + 1) \div 2) |-> pat[2 * i - 1].bytes]

\* the first n components of p are the first n literals
LeadingEqual(p, lits, n) == \A i \in 1..n : p[i] = Normal(lits[i])

\* C10: a pattern of literal components joined by separators yields complete
\* and not prefix when the path's components equal the literals, prefix and
\* not complete when they are a strict leading part, and neither otherwise.
C10_Literals ==
    (phase # "running" /\ IsLiteralPattern(pattern)) =>
        LET lits == LiteralsOf(pattern) IN
        /\ Returned
        /\ IsComplete <=> (Len(path) = Len(lits) /\ LeadingEqual(path, lits, Len(lits)))
        /\ IsPrefix <=> (Len(path) < Len(lits) /\ LeadingEqual(path, lits, Len(path)))

C10_Witness ==
    /\ Returned
    /\ IsLiteralPattern(pattern)
    /\ Len(pattern) = 3
    /\ Len(path) = 1
    /\ LeadingEqual(path, LiteralsOf(pattern), 1)
    /\ IsPrefix /\ ~IsComplete

ends_with(s, t) ==
    /\ Len(t) <= Len(s)
    /\ SubSeq(s, Len(s) - Len(t) + 1, Len(s)) = t

IsWildcardPattern(pat) ==
    \E P \in WildcardAffixes, S \in WildcardAffixes : pat = WildcardPattern(P, S)

\* the literal before (after) the wildcard, <<>> when there is none
LiteralBefore(pat) == IF pat[1].type = "LiteralString" THEN pat[1].bytes ELSE <<>>
LiteralAfter(pat) == IF pat[Len(pat)].type = "LiteralString" THEN pat[Len(pat)].bytes ELSE <<>>

\* c starts with P, ends with S and is at least as long as both together
Affixed(c, P, S) == starts_with(c, P) /\ ends_with(c, S) /\ Len(c) >= Len(P) + Len(S)

\* C11: for a pattern P? * S? a single normal component c yields complete
\* and not prefix iff c starts with P, ends with S and |c| >= |P| + |S|
\* (and is no complete match otherwise); no path of two or more components
\* is a complete match.
C11_Wildcard ==
    (phase # "running" /\ IsWildcardPattern(pattern)) =>
        /\ Returned
        /\ (Len(path) = 1 /\ path[1].kind = "Normal") =>
              IF Affixed(path[1].bytes, LiteralBefore(pattern), LiteralAfter(pattern))
              THEN IsComplete /\ ~IsPrefix
              ELSE ~IsComplete
        /\ Len(path) >= 2 => ~IsComplete

C11_Witness ==
    /\ Returned
    /\ pattern = WildcardPattern(str_a, str_b)
    /\ path = << Normal(<<97, 98, 98>>) >>
    /\ IsComplete /\ ~IsPrefix

\* the offsets of the top-level Alternatives nodes of a pattern
AlternativesAt(pat) == { k \in 1..Len(pat) : pat[k].type = "Alternatives" }

\* X ci Y: the pattern with the node at k replaced by its i-th choice
WithChoice(pat, k, i) ==
    SubSeq(pat, 1, k - 1) \o pat[k].choices[i] \o SubSeq(pat, k + 1, Len(pat))

\* the path is a complete match of the pattern
CompleteMatch(p, pat) ==
    LET r == path_matches(p, compile(pat)) IN
    ~r.panicked /\ r.result.valid_as_complete_match

\* X {c1,...,cN} Y (N >= 1) is a complete match of a path iff X ci Y is a
\* complete match of it for at least one i
C12_Expansion ==
    (phase # "running" /\ AlternativesAt(pattern) # {}) =>
        /\ Returned
        /\ \A k \in AlternativesAt(pattern) :
              IsComplete <=>
                \E i \in 1..Len(pattern[k].choices) : CompleteMatch(path, WithChoice(pattern, k, i))

\* the second of three choices is the only one that matches
C12_Witness ==
    /\ Returned
    /\ Len(pattern) = 3
    /\ pattern[2].type = "Alternatives"
    /\ Len(pattern[2].choices) = 3
    /\ IsComplete
    /\ CompleteMatch(path, WithChoice(pattern, 2, 2))
    /\ ~CompleteMatch(path, WithChoice(pattern, 2, 1))
    /\ ~CompleteMatch(path, WithChoice(pattern, 2, 3))

\* the scenario of the table: `{file,dir}` on `file` is complete
C12_FileOrDir ==
    (phase # "running" /\ pattern = FileOrDir /\ path = << Normal(str_file) >>)
        => (Returned /\ IsComplete)

\* C12: X {c1,...,cN} Y (N >= 1, N >= 3 included) is a complete match of a
\* path iff X ci Y is a complete match of it for at least one i, and
\* `{file,dir}` on `file` is complete.
C12_Alternatives == C12_Expansion /\ C12_FileOrDir

\* the path is valid as a prefix of a match of the pattern
PrefixMatch(p, pat) ==
    LET r == path_matches(p, compile(pat)) IN
    ~r.panicked /\ r.result.valid_as_prefix

PathText(p) == join([i \in 1..Len(p) |-> p[i].bytes])

\* A direct interpretation of the AST by the node meanings of the data
\* model, on the text of a path: the positions (bytes consumed so far) at
\* which a node, or a sequence of nodes, can end when it starts at i.
RECURSIVE RefSeq(_, _, _)
RECURSIVE RefNode(_, _, _)
RECURSIVE RefTimes(_, _, _, _)
RECURSIVE RefWildcard(_, _)

\* one character that is not a separator, decoded leniently
RefAnyCharacter(s, i) ==
    IF i < Len(s) /\ s[i + 1] # 47
    THEN { i + length_of_first_char(From(s, i))[1] }
    ELSE {}

\* zero or more characters within a component
RefWildcard(s, i) == {i} \cup UNION { RefWildcard(s, j) : j \in RefAnyCharacter(s, i) }

\* a sequence of nodes started at any position of the set P
RefSeq(nodes, s, P) ==
    IF nodes = <<>> THEN P
    ELSE RefSeq(Tail(nodes), s, UNION { RefNode(Head(nodes), s, i) : i \in P })

\* exactly k copies of a sub-pattern
RefTimes(body, s, P, k) ==
    IF k = 0 THEN P ELSE RefTimes(body, s, RefSeq(body, s, P), k - 1)

RefNode(n, s, i) ==
    CASE n.type = "Separator" -> IF i < Len(s) /\ s[i + 1] = 47 THEN {i + 1} ELSE {}
      [] n.type = "LiteralString" ->
            IF starts_with(From(s, i), n.bytes) THEN {i + Len(n.bytes)} ELSE {}
      [] n.type = "AnyCharacter" -> RefAnyCharacter(s, i)
      [] n.type = "Wildcard" -> RefWildcard(s, i)
      [] n.type = "Characters" ->
            { j \in RefAnyCharacter(s, i) : ClassAccepts(n.classes, FirstChar(From(s, i))) }
      [] n.type = "Alternatives" ->
            UNION { RefSeq(n.choices[c], s, {i}) : c \in 1..Len(n.choices) }
      [] n.type = "Repeat" ->
            UNION { RefTimes(n.pattern, s, {i}, k) : k \in n.min .. n.max }
      [] OTHER -> {}

\* the whole text of the path is one match of the pattern
RefComplete(pat, p) == Len(PathText(p)) \in RefSeq(pat, PathText(p), {0})

\* The patterns whose meaning the data model fixes without reference to
\* the typed non-normal components: no Prefix, RootDir, CurDir, ParentDir or
\* Recurse node, separators only between two other nodes, min <= max.
RECURSIVE InRefFragment(_)
InRefFragment(pat) ==
    /\ pat # <<>> => (pat[1].type # "Separator" /\ pat[Len(pat)].type # "Separator")
    /\ \A k \in 1..Len(pat) :
          /\ pat[k].type \in {"Separator", "LiteralString", "AnyCharacter", "Wildcard",
                              "Characters", "Alternatives", "Repeat"}
          /\ (pat[k].type = "Separator" /\ k < Len(pat)) => pat[k + 1].type # "Separator"
          /\ pat[k].type = "Alternatives" =>
                \A c \in 1..Len(pat[k].choices) : InRefFragment(pat[k].choices[c])
          /\ pat[k].type = "Repeat" =>
                (pat[k].min <= pat[k].max /\ InRefFragment(pat[k].pattern))

\* C14: on every path of normal components, executing the compiled
\* pattern ends with a MatchResult, and its complete bit is the one a direct
\* recursive interpretation of the AST gives.
C14_RoundTrip ==
    (phase # "running" /\ InRefFragment(pattern) /\ AllNormal(path)) =>
        /\ Returned
        /\ IsComplete <=> RefComplete(pattern, path)

\* t is what is left of s after some bytes were taken from its front
IsSuffix(t, s) == Len(t) <= Len(s) /\ From(s, Len(s) - Len(t)) = t

\* the node lists a call of next_node can be given, as far as a recogniser
\* looks at them: empty, ending in a separator, ending in another node
OutContexts == { <<>>, << Sep >>, << LiteralString(str_a) >> }

\* every call of next_node on a non-empty rest of the input, at the top
\* level or inside a nested construct, answers Ok and takes at least one byte
C15_Consumes ==
    phase = "parsing" =>
        \A k \in 0..(Len(remaining) - 1) :
            \A o \in OutContexts \cup {ast} :
                LET r == next_node(From(remaining, k), o) IN
                /\ r.ok
                /\ Len(r.string) < Len(remaining) - k
                /\ IsSuffix(r.string, From(remaining, k))

\* C15: parse ends and returns a Pattern for every input, without a panic,
\* and every call of next_node on a non-empty input consumes at least one
\* byte, inside nested constructs and after a rejected construct too.
C15_ParseTotal == []C15_Consumes /\ <>(phase = "parsed")

\* `{a,<b:2}` parsed: a rejected `<` inside a closed `{...}`
C15_Witness ==
    /\ phase = "parsed"
    /\ Len(pattern) = 1
    /\ pattern[1].type = "Alternatives"
    /\ Len(pattern[1].choices) = 2
    /\ pattern[1].choices[2][1].type = "LiteralString"
    /\ pattern[1].choices[2][1].bytes[1] = 60

\* the answer of the recogniser whose opening byte the input starts with
OpenerAnswer(s, o) ==
    CASE s[1] = 123 -> node_alternatives(s, o)
      [] s[1] = 91 -> node_character_class(s, o)
      [] s[1] = 60 -> node_repeat(s, o)

\* the input starts with `{`, `[` or `<` and the recogniser rejects it
Rejects(s, o) == s # <<>> /\ s[1] \in {123, 91, 60} /\ ~OpenerAnswer(s, o).ok

\* ... and rejects it because the construct is not closed before the input
\* ends: always so for `{`; for `[` when no undecodable byte is in the way;
\* for `<` when no `>` follows
Unclosed(s, o) ==
    /\ Rejects(s, o)
    /\ s[1] = 91 => is_utf8(s)
    /\ s[1] = 60 => position(s, {62}) < 0

\* the bytes up to the next meaningful byte after the first
LiteralRun(s) ==
    LET idx == position(From(s, 1), MEANINGFUL_BYTES) IN
    IF idx < 0 THEN s ELSE SubSeq(s, 1, idx + 1)

\* C16 as stated: the whole of an unclosed construct is parsed as literal
\* bytes, no other node is produced from it.
C16_UnclosedAllLiteral ==
    (phase = "parsing" /\ Unclosed(remaining, ast)) =>
        LET rest == parse_nodes(remaining, {}, <<>>).out IN
        \A i \in 1..Len(rest) : rest[i].type = "LiteralString"

\* C16 as amended: a rejecting recogniser hands back its input and node
\* list unchanged, and next_node then pushes one LiteralString that starts
\* with the opening byte and ends before the next meaningful byte; what
\* follows is parsed by the ordinary rules.
C16_OpenerLiteral ==
    phase = "parsing" =>
        \A k \in 0..(Len(remaining) - 1) :
            \A o \in OutContexts \cup {ast} :
                LET s == From(remaining, k) IN
                Rejects(s, o) =>
                    /\ OpenerAnswer(s, o) = Err(s, o)
                    /\ next_node(s, o) =
                          Ok(From(s, Len(LiteralRun(s))), Append(o, LiteralString(LiteralRun(s))))

\* `{a,*` parsed: the literals `{a` and `,`, then a wildcard
C16_Witness ==
    /\ phase = "parsed"
    /\ source = <<123, 97, 44, 42>>
    /\ pattern = << LiteralString(<<123, 97>>), LiteralString(<<44>>), Wildcard >>

\* Every CurDir and ParentDir node of a node sequence comes after nothing,
\* RootDir or Separator and before a Separator or the end of the pattern.
\* before is the type of the node in front of the sequence ("None" at the
\* start of the pattern); the first node of a choice or of a repeat body
\* counts as coming after whatever is in front of its construct.
RECURSIVE DotsIsolated(_, _, _)
DotsIsolated(seq, before, top) ==
    \A i \in 1..Len(seq) :
        LET prev == IF i = 1 THEN before ELSE seq[i - 1].type IN
        /\ seq[i].type \in {"CurDir", "ParentDir"} =>
              /\ prev \in {"None", "RootDir", "Separator"}
              /\ IF i = Len(seq) THEN top ELSE seq[i + 1].type = "Separator"
        /\ seq[i].type = "Alternatives" =>
              \A c \in 1..Len(seq[i].choices) : DotsIsolated(seq[i].choices[c], prev, FALSE)
        /\ seq[i].type = "Repeat" => DotsIsolated(seq[i].pattern, prev, FALSE)

\* C17: parse emits CurDir or ParentDir only for dots that follow nothing,
\* RootDir or a separator and precede a separator or the end of the input,
\* inside choices and repeat bodies as well; `.hidden` and `..x` are
\* literals.
C17_DotsIsolated ==
    /\ phase = "parsed" => DotsIsolated(pattern, "None", TRUE)
    /\ (phase = "parsed" /\ source = <<46, 104, 105, 100, 100, 101, 110>>)
          => pattern = << LiteralString(<<46, 104, 105, 100, 100, 101, 110>>) >>
    /\ (phase = "parsed" /\ source = <<46, 46, 120>>)
          => pattern = << LiteralString(<<46, 46, 120>>) >>

\* Every Repeat node of a node sequence, at any depth, has min <= max.
RECURSIVE RepeatsOrdered(_)
RepeatsOrdered(seq) ==
    \A i \in 1..Len(seq) :
        /\ seq[i].type = "Repeat" =>
              seq[i].min <= seq[i].max /\ RepeatsOrdered(seq[i].pattern)
        /\ seq[i].type = "Alternatives" =>
              \A c \in 1..Len(seq[i].choices) : RepeatsOrdered(seq[i].choices[c])

\* C18: every Repeat node that parse produces has min <= max, whatever
\* count specification `M,N` the parser accepted.
C18_MinAtMostMax == phase = "parsed" => RepeatsOrdered(pattern)

\* the sequences of nodes directly inside a node
Children(node) ==
    IF node.type = "Repeat" THEN << node.pattern >>
    ELSE IF node.type = "Alternatives" THEN node.choices
    ELSE <<>>

HasChildNodes(node) == \E c \in 1..Len(Children(node)) : Children(node)[c] # <<>>

\* the number of Repeat nodes of a node sequence, counted at all depths
RECURSIVE RepeatNodes(_)
RECURSIVE RepeatNodesOfAll(_)
RepeatNodesOfAll(seqs) ==
    IF seqs = <<>> THEN 0 ELSE RepeatNodes(Head(seqs)) + RepeatNodesOfAll(Tail(seqs))

RECURSIVE RepeatNodesBelow(_)
RepeatNodesBelow(parents) ==
    IF parents = <<>> THEN 0
    ELSE RepeatNodesOfAll(Children(Head(parents))) + RepeatNodesBelow(Tail(parents))

RepeatNodes(seq) ==
    Cardinality({ i \in 1..Len(seq) : seq[i].type = "Repeat" })
        + RepeatNodesBelow(SelectSeq(seq, HasChildNodes))

\* C19: compile returns an error exactly when the AST holds more than
\* u16::MAX Repeat nodes, counted at all nesting depths; with u16::MAX or
\* fewer it returns a program.
C19_CounterBound ==
    /\ phase = "compile_error" => RepeatNodes(FullPattern) > U16_MAX
    /\ phase = "compiled" => RepeatNodes(FullPattern) <= U16_MAX
    /\ phase = "compiling" => counters = RepeatNodes(SubSeq(FullPattern, 1, appended))

\* the 65536th Repeat node has been refused
C19_Witness == phase = "compile_error" /\ RepeatNodes(FullPattern) = U16_MAX + 1

\* Complete is the last instruction and stands nowhere else
CompleteOnlyLast(instructions) ==
    /\ instructions # <<>>
    /\ \A k \in 1..Len(instructions) :
          instructions[k].op = "Complete" <=> k = Len(instructions)

\* C20: every program compile returns has Complete as its last instruction
\* and at no other offset.
C20_CompleteLast == phase # "compile_error" => CompleteOnlyLast(program)

\* the program of a pattern with several choices, whose gadget is patched
\* after it was pushed, has run and ends with its one Complete
C20_Witness ==
    /\ phase = "returned"
    /\ \E i \in 1..Len(pattern) :
          pattern[i].type = "Alternatives" /\ Len(pattern[i].choices) >= 2
    /\ Len(program) > 8
    /\ program[Len(program)].op = "Complete"

\* C25: the result starts as (false, false) and a result bit that is true
\* stays true in every later state of the match, also when a snapshot is
\* restored.
C25_BitsMonotone ==
    /\ result = NoResult
    /\ [][/\ result.valid_as_prefix => result'.valid_as_prefix
          /\ result.valid_as_complete_match => result'.valid_as_complete_match]_vars

\* the match goes on from a restored snapshot with one bit already set
C25_Witness ==
    /\ phase = "running"
    /\ result.valid_as_complete_match
    /\ ~result.valid_as_prefix
    /\ alternatives # <<>>

BothBits(r) == r.valid_as_prefix /\ r.valid_as_complete_match

\* a step that failed with no snapshot to go back to: nothing was pushed or
\* popped and pc stayed where it was
FailedOnEmptyStack == alternatives = <<>> /\ alternatives' = <<>> /\ state'.pc = state.pc

\* C26: the match loop stops exactly when both result bits are true or a
\* step fails while the backtrack stack is empty; with one bit set it goes
\* on executing and backtracking.
C26_Halting ==
    [][(phase = "running" /\ phase' # "panicked") =>
          /\ ~BothBits(result)
          /\ phase' \in {"running", "returned"}
          /\ phase' = "returned" <=> (BothBits(result') \/ FailedOnEmptyStack)]_vars

\* the loop has stopped on the two bits although snapshots were left
C26_Witness == phase = "returned" /\ BothBits(result) /\ alternatives # <<>>

\* C27: Alternative(off) pushes exactly one snapshot, the current state
\* with pc replaced by off (same iterator position, current string, fresh
\* flag and counters), and changes nothing of the live state but pc, which
\* advances by one.
C27_AlternativePush ==
    [][(phase = "running" /\ ~Panics /\ instr.op = "Alternative") =>
          /\ alternatives' = Append(alternatives, [state EXCEPT !.pc = instr.off])
          /\ state' = [state EXCEPT !.pc = state.pc + 1]
          /\ result' = result]_vars

\* just after an Alternative inside a component, with a counter that has
\* been incremented
C27_Witness ==
    /\ phase = "running"
    /\ state.pc > 0
    /\ program[state.pc].op = "Alternative"
    /\ alternatives # <<>>
    /\ alternatives[Len(alternatives)] = [state EXCEPT !.pc = program[state.pc].off]
    /\ state.current_string # <<>>
    /\ \E c \in 1..Len(state.counters) : state.counters[c] > 0

\* The step about to be taken fails: the arm of advance that runs ends in
\* try_alternative, end_of_input or complete.
StepFails ==
    LET ns == next_string(state, path)
        string == ns.st.current_string[1]
        component == peek(state, path)
    IN  CASE instr.op = "Separator" ->
                IF has_string(Matcher) THEN ~state.fresh_string ELSE component = <<>>
          [] instr.op \in {"Prefix", "RootDir", "CurDir", "ParentDir"} ->
                \/ has_string(Matcher)
                \/ component = <<>>
                \/ component[1].kind # instr.op
                \/ instr.op = "Prefix" /\ component[1].bytes # instr.bytes
          [] instr.op = "LiteralString" ->
                ns.kind # "Normal" \/ ~starts_with(string, instr.bytes)
          [] instr.op = "AnyCharacter" -> ns.kind # "Normal" \/ string = <<>>
          [] instr.op = "AnyString" -> ns.kind # "Normal"
          [] instr.op = "Complete" -> TRUE
          [] OTHER -> FALSE

\* C28: backtracking is last-in-first-out. A step that fails while the
\* stack is not empty replaces the whole live state by the snapshot pushed
\* last and removes that snapshot; what was counted and consumed since it
\* was pushed is gone. No other step removes a snapshot.
C28_Lifo ==
    [][(phase = "running" /\ ~Panics) =>
          IF StepFails /\ alternatives # <<>>
          THEN /\ state' = alternatives[Len(alternatives)]
               /\ alternatives' = SubSeq(alternatives, 1, Len(alternatives) - 1)
          ELSE Len(alternatives') >= Len(alternatives)]_vars

\* a step is about to fail on top of several snapshots, the last of which
\* was pushed before bytes were consumed and a counter was incremented
C28_Witness ==
    /\ phase = "running"
    /\ ~Panics
    /\ StepFails
    /\ Len(alternatives) >= 2
    /\ alternatives[1] # alternatives[Len(alternatives)]
    /\ alternatives[Len(alternatives)].current_string # state.current_string
    /\ \E c \in 1..Len(state.counters) :
          alternatives[Len(alternatives)].counters[c] < state.counters[c]

StructuralOps == {"Separator", "Prefix", "RootDir", "CurDir", "ParentDir"}
ByteLevelOps == {"LiteralString", "AnyCharacter", "AnyString", "Characters"}

\* The step about to be taken fails because the component iterator is
\* exhausted: a structural instruction at a component boundary, or a
\* byte-level instruction with no current component, finds no component.
FailsOnExhaustedInput(ops) ==
    /\ instr.op \in ops
    /\ peek(state, path) = <<>>
    /\ IF instr.op \in StructuralOps THEN ~has_string(Matcher) ELSE state.current_string = <<>>

PcInRange == state.pc >= 0 /\ state.pc < Len(program)

\* C29: a step sets valid_as_prefix iff it executes a structural or a
\* byte-level instruction (Characters included) that fails because the
\* component iterator is exhausted; a mismatching byte or component, a
\* non-Normal component and a Complete with input left never set it.
C29_PrefixAcceptance ==
    [][(phase = "running" /\ PcInRange /\ ~result.valid_as_prefix) =>
          (result'.valid_as_prefix <=> FailsOnExhaustedInput(StructuralOps \cup ByteLevelOps))]_vars

\* n repetitions of `a` are between inner[1] and inner[2] of them, taken
\* between outer[1] and outer[2] times
NestedCount(outer, inner, n) ==
    \E k \in outer[1]..outer[2] : k * inner[1] <= n /\ n <= k * inner[2]

\* C30: a Repeat inside the body of a Repeat matches between its own min
\* and max times in every iteration of the outer one; so
\* Repeat{2,2,[Repeat{2,2,[a]}]} is a complete match of `aaaa` and not of
\* `aaa`.
C30_NestedRepeat ==
    \A outer \in RepeatCounts, inner \in RepeatCounts, n \in 1..(MaxRepeat * MaxRepeat + 1) :
        (/\ phase = "returned"
         /\ pattern = NestedRepeat(outer, inner)
         /\ path = << Normal(Times(str_a, n)) >>)
        => (result.valid_as_complete_match <=> NestedCount(outer, inner, n))

\* The candidates a running task is about to offer: `..` first, then the
\* entries of its listing in any order.
ParentCandidate == [err |-> FALSE, name |-> <<46, 46>>]
Candidates(w) ==
    IF w.parent THEN { ParentCandidate } ELSE { e \in w.todo : ~e.err }
CandidatePath(w, e) ==
    strip_prefix_or(path_join(w.target, IF w.parent THEN NonNormal("ParentDir") ELSE Normal(e.name)),
                    output_relative_to)
\* the entry is a directory: the parent of the directory read always is
CandidateIsDir(w, e) == w.parent \/ IsDir(Append(w.dir, e.name))
AfterCandidate(w, e) ==
    IF w.parent THEN [w EXCEPT !.parent = FALSE] ELSE [w EXCEPT !.todo = @ \ {e}]

\* task w has handled candidate e in this step as the contract asks
HandledByContract(w, e) ==
    LET c == CandidatePath(w, e)
        r == path_matches(c, Program).result
    IN  /\ tasks' \ tasks \subseteq { AfterCandidate(w, e), Spawned(c) }
        /\ Spawned(c) \in tasks' <=> (r.valid_as_prefix /\ CandidateIsDir(w, e))
        /\ IF rx = "open"
           THEN /\ AfterCandidate(w, e) \in tasks'
                /\ tx' = IF r.valid_as_complete_match THEN Append(tx, OkItem(c)) ELSE tx
           ELSE /\ AfterCandidate(w, e) \in tasks' <=> ~r.valid_as_complete_match
                /\ tx' = tx

\* the other steps in which a running task changes: an Err item of the
\* listing, and the end of the listing
OtherTaskStep(w) ==
    \/ ~w.parent /\ w.todo = {} /\ tasks' = tasks \ {w}
    \/ \E e \in w.todo :
          /\ e.err
          /\ ~w.parent
          /\ tasks' \subseteq (tasks \ {w}) \cup { [w EXCEPT !.todo = @ \ {e}] }

\* C21: for every candidate the walker starts a walk of the entry iff
\* path_matches reports prefix for it and the entry is a directory, and it
\* sends the candidate on the result channel iff path_matches reports
\* complete; neither decision depends on the other.
C21_WalkerContract ==
    [][\A w \in tasks :
          (w.stage = "running" /\ w \notin tasks') =>
              \/ OtherTaskStep(w)
              \/ \E e \in Candidates(w) : HandledByContract(w, e)]_vars

\* a candidate that was both sent and taken as the start of a further walk
C21_Witness ==
    /\ phase = "walking"
    /\ \E k \in 1..Len(tx) : tx[k].ok /\ Spawned(tx[k].path) \in tasks

\* What a walk that nothing aborts delivers for glob_to(t): the matches
\* among the candidates of t, an Err for a failed read of t or a failing
\* entry of its listing, and the same for every candidate walked.
RECURSIVE WalkItems(_)
WalkItems(t) ==
    IF read_dir(t) = <<>> THEN { ErrItem(t) }
    ELSE LET d == read_dir(t)[1]
             parent_path == path_join(t, NonNormal("ParentDir"))
             hs == { handle_path_candidate(parent_path, metadata_is_dir(parent_path)) }
                   \cup { handle_path_candidate(path_join(t, Normal(e.name)),
                                                IsDir(Append(d, e.name))) :
                            e \in { x \in Listing(d) : ~x.err } }
         IN  { OkItem(h.path_candidate) : h \in { x \in hs : x.send } }
             \cup (IF \E e \in Listing(d) : e.err THEN { ErrItem(t) } ELSE {})
             \cup UNION { WalkItems(h.path_candidate) : h \in { x \in hs : x.recurse } }

\* every task has ended and the consumer has taken everything
WalkDone == phase = "walking" /\ tasks = {} /\ tx = <<>> /\ rx = "open"

\* C22: a failed directory read (read_dir, or a failing entry of the
\* listing) arrives as an Err item on the channel of the matches and aborts
\* nothing: a consumer that takes everything gets the Err items and every
\* match of the other directories and of the rest of the same listing.
C22_ErrorsDelivered ==
    WalkDone =>
        /\ { received[k] : k \in 1..Len(received) } = WalkItems(current_dir)
        /\ Len(received) = Cardinality(WalkItems(current_dir))

\* both kinds of failure were delivered, and a match after them
C22_Witness ==
    /\ WalkDone
    /\ fs.unreadable # {}
    /\ fs.failing # {}
    /\ \E i, j, k \in 1..Len(received) :
          /\ i < j /\ j < k
          /\ ~received[i].ok /\ ~received[j].ok /\ received[i] # received[j]
          /\ received[k].ok

\* C23: once the consumer has dropped the iterator no worker starts the
\* walk of a further directory, whether or not it has a match to send: no
\* step after the hang-up spawns glob_to on a candidate.
C23_HangUpObserved ==
    [][rx = "dropped" => \A t \in tasks' \ tasks : t.stage # "spawned"]_vars

\* The directory a task is meant to read: the start directory for the
\* first task, and for a candidate the root joined with the candidate (a
\* candidate below an absolute prefix is absolute, and joins to itself).
IntendedDirs(w) == { resolve(current_dir), resolve(current_dir \o w.target) }
Readable(r) == r # <<>> /\ IsDir(r[1]) /\ r[1] \notin fs.unreadable

\* the call of fs::read_dir by task w in this step read an intended
\* directory: it lists that directory, or fails where that directory
\* cannot be read
ReadsIntended(w) ==
    IF \E t \in tasks' : t.stage = "running" /\ t.target = w.target
    THEN \E t \in tasks' :
            t.stage = "running" /\ t.target = w.target /\ << t.dir >> \in IntendedDirs(w)
    ELSE \E r \in IntendedDirs(w) : ~Readable(r)

\* an emitted path is absolute under an absolute prefix and relative to
\* the root otherwise, and names a file there
EmittedFromRoot(item) ==
    /\ (Program.absolute_prefix # <<>>) <=> (item.path # <<>> /\ Head(item.path).kind = "RootDir")
    /\ resolve(current_dir \o item.path) # <<>>

WalkRootStep ==
    /\ \A w \in tasks : (w.stage = "spawned" /\ w \notin tasks') => ReadsIntended(w)
    /\ (Len(tx') > Len(tx) /\ tx'[Len(tx')].ok) => EmittedFromRoot(tx'[Len(tx')])

\* C24: the walk begins at the absolute prefix if the program has one and
\* at the caller's root otherwise; every directory read afterwards is the
\* directory of the candidate beneath that start, for any root; emitted
\* paths are absolute in the first case and relative to the root in the
\* second.
C24_WalkRoot ==
    /\ tasks = { Spawned(IF Program.absolute_prefix # <<>>
                         THEN Program.absolute_prefix[1] ELSE root) }
    /\ [][WalkRootStep]_vars

\* the Repeat nodes of a node sequence in source order: a Repeat stands
\* before the Repeats of its body, the choices of an Alternatives follow
\* each other
RECURSIVE RepeatsInOrder(_)
RECURSIVE RepeatsInOrderOfAll(_)
RepeatsInOrderOfAll(seqs) ==
    IF seqs = <<>> THEN <<>>
    ELSE RepeatsInOrder(Head(seqs)) \o RepeatsInOrderOfAll(Tail(seqs))
RepeatsInOrder(seq) ==
    IF seq = <<>> THEN <<>>
    ELSE (IF Head(seq).type = "Repeat" THEN << Head(seq) >> ELSE <<>>)
            \o RepeatsInOrderOfAll(Children(Head(seq)))
            \o RepeatsInOrder(Tail(seq))

\* the Repeats of the whole pattern: the leading run has no bodies
FullRepeatsInOrder == RepeatRuns[run] \o RepeatsInOrder(pattern)

IsIncrement(i) == i.op = "Increment"
UsesCounter(i) == i.op \in {"Increment", "BranchIfLessThan"}

\* the i-th Repeat in source order has counter i: the Increments stand in
\* the program in the order of the Repeats and count up from 0, and every
\* branch on a counter compares it with the min (the branch back to the
\* Increment of that counter) or the max (the branch forward) of the
\* Repeat with that number
CountersInSourceOrder(instructions, repeats) ==
    LET incs == SelectSeq(instructions, IsIncrement) IN
    /\ Len(incs) = Len(repeats)
    /\ \A k \in 1..Len(incs) : incs[k].ctr = k - 1
    /\ \A k \in 1..Len(instructions) :
          instructions[k].op = "BranchIfLessThan" =>
              LET b == instructions[k] IN
              /\ b.ctr >= 0 /\ b.ctr < Len(repeats)
              /\ IF b.off < k - 1
                 THEN /\ instructions[b.off + 1] = I_Increment(b.ctr)
                      /\ b.val = repeats[b.ctr + 1].min
                 ELSE b.val = repeats[b.ctr + 1].max

\* every counter operand is an index of a vector of num_counters counters
CountersInRange(instructions, num_counters) ==
    \A k \in 1..Len(instructions) :
        UsesCounter(instructions[k]) =>
            instructions[k].ctr >= 0 /\ instructions[k].ctr < num_counters

\* C31: after a successful compile Program.counters is the number of
\* Repeat nodes of the AST at all depths, the i-th Repeat in source order
\* uses counter i, and every counter operand of Increment and
\* BranchIfLessThan is below Program.counters.
C31_CounterAllocation ==
    phase = "compiled" =>
        /\ counters = RepeatNodes(FullPattern)
        /\ counters = Len(FullRepeatsInOrder)
        /\ CountersInSourceOrder(FullProgram, FullRepeatsInOrder)
        /\ CountersInRange(FullProgram, counters)

\* a program with a nested pair of Repeats and a pair in the choices of an
\* Alternatives after the leading run
C31_Witness ==
    /\ phase = "compiled"
    /\ run = 1
    /\ counters = 5
    /\ \E i \in 1..Len(pattern) : pattern[i].type = "Alternatives"

\* the Prefix and RootDir nodes an AST begins with
RECURSIVE LeadingAbsolute(_)
LeadingAbsolute(seq) ==
    IF seq # <<>> /\ Head(seq).type \in {"Prefix", "RootDir"}
    THEN << Head(seq) >> \o LeadingAbsolute(Tail(seq))
    ELSE <<>>

\* the path those nodes stand for, one component per node
ConcretePath(seq) ==
    [k \in 1..Len(seq) |->
        IF seq[k].type = "RootDir" THEN NonNormal("RootDir")
        ELSE [kind |-> "Prefix", bytes |-> seq[k].bytes]]

\* a pattern text that does not begin with a separator is relative
IsRelativeText(t) == t = <<>> \/ ~is_separator(Head(t))

\* C32: the program compiled from what parse returns has an absolute
\* prefix iff the AST begins with Prefix or RootDir, the prefix is then the
\* path of exactly those leading nodes, and it has none when the pattern
\* text is relative.
C32_AbsolutePrefix ==
    phase = "parsed" =>
        LET p == compile(pattern)
            lead == LeadingAbsolute(pattern)
        IN  /\ ~p.err
            /\ (p.absolute_prefix # <<>>) <=> (lead # <<>>)
            /\ lead # <<>> => p.absolute_prefix = << ConcretePath(lead) >>
            /\ IsRelativeText(source) => p.absolute_prefix = <<>>

\* an absolute pattern text with more than its root has been parsed
C32_Witness ==
    /\ phase = "parsed"
    /\ ~IsRelativeText(source)
    /\ Len(pattern) > 1
    /\ compile(pattern).absolute_prefix = << << NonNormal("RootDir") >> >>

\* Every Recurse node of a node sequence is a whole component: it comes
\* after nothing, RootDir or Separator and before a Separator or the end.
\* before and after are the types of the nodes around the sequence ("None"
\* at the ends of the pattern); the first and last node of a choice or of
\* a repeat body count as standing next to what is around their construct.
RECURSIVE RecurseIsolated(_, _, _)
RecurseIsolated(seq, before, after) ==
    \A i \in 1..Len(seq) :
        LET prev == IF i = 1 THEN before ELSE seq[i - 1].type
            succ == IF i = Len(seq) THEN after ELSE seq[i + 1].type
        IN  /\ seq[i].type = "Recurse" =>
                  prev \in {"None", "RootDir", "Separator"} /\ succ \in {"None", "Separator"}
            /\ seq[i].type = "Alternatives" =>
                  \A c \in 1..Len(seq[i].choices) : RecurseIsolated(seq[i].choices[c], prev, succ)
            /\ seq[i].type = "Repeat" => RecurseIsolated(seq[i].pattern, prev, succ)

\* C33: parse emits Recurse for `**` only where the `**` is a whole path
\* component; `a**` and `**b` give no Recurse.
C33_RecurseIsolated == phase = "parsed" => RecurseIsolated(pattern, "None", "None")

\* the node sequence holds only literal components, separators and `**`
LiteralsAndRecurse(pat) ==
    \A i \in 1..Len(pat) : pat[i].type \in {"LiteralString", "Separator", "Recurse"}

\* the components a match of such a pattern is made of: its literals, and
\* one fixed name for `**` to descend through
LiteralComponents(pat) ==
    { Normal(pat[i].bytes) : i \in { j \in 1..Len(pat) : pat[j].type = "LiteralString" } }
        \cup { Normal(str_foo) }

\* the paths obtained from q by appending one or more such components, up
\* to one more than the pattern has nodes
Extensions(q, pat) ==
    { q \o e : e \in SeqsUpTo(LiteralComponents(pat), Len(pat) + 1) \ {<<>>} }

\* C34: whenever path_matches reports a path as a valid prefix, some path
\* made by appending one or more components to it is a complete match
\* (checked on the patterns of literals, separators and `**`, whose matches
\* are built from the pattern's own literal names).
C34_PrefixSound ==
    (Returned /\ IsPrefix /\ LiteralsAndRecurse(pattern)) =>
        \E p \in Extensions(path, pattern) :
            path_matches(p, compile(pattern)).result.valid_as_complete_match

BranchOps == {"Jump", "Alternative", "BranchIfLessThan"}

\* every branch target is the offset of an instruction of the program
TargetsInRange(instructions) ==
    \A i \in 1..Len(instructions) :
        instructions[i].op \in BranchOps =>
            /\ instructions[i].off # PLACEHOLDER
            /\ instructions[i].off >= 0
            /\ instructions[i].off < Len(instructions)

\* the pc of the running state and of every saved snapshot is the offset of
\* an instruction
AllPcsInRange(instructions, st, alts) ==
    /\ st.pc >= 0 /\ st.pc < Len(instructions)
    /\ \A k \in 1..Len(alts) : alts[k].pc >= 0 /\ alts[k].pc < Len(instructions)

\* C35: in a compiled program every Jump, Alternative and BranchIfLessThan
\* target is an offset inside the instruction vector and no placeholder is
\* left; in every state of a match the pc, and the pc of every saved
\* snapshot, is below the number of instructions, and Complete is the last
\* instruction, so nothing is fetched outside the program or after Complete.
C35_PcInRange ==
    phase \in {"running", "returned", "panicked"} =>
        /\ TargetsInRange(program)
        /\ CompleteOnlyLast(program)
        /\ AllPcsInRange(program, state, alternatives)

\* a match has taken a branch back into a gadget and holds two snapshots
C35_Witness ==
    /\ phase = "running"
    /\ Len(alternatives) >= 2
    /\ state.pc > 0
    /\ \E i \in 1..Len(program) :
           program[i].op \in BranchOps /\ program[i].off = Len(program) - 1
    /\ \E i \in 1..Len(program) : program[i].op = "BranchIfLessThan"

\* the rearrangements of n choices
Rearrangements(n) == { f \in [1..n -> 1..n] : \A i, j \in 1..n : f[i] = f[j] => i = j }

\* the pattern with the choices of the Alternatives node at k rearranged by f
Permuted(pat, k, f) ==
    [pat EXCEPT ![k].choices = [i \in 1..Len(pat[k].choices) |-> pat[k].choices[f[i]]]]

\* what path_matches made of the match that has ended: its MatchResult, or
\* the panic that ended it
Outcome == [result |-> result, panicked |-> phase = "panicked"]

\* C36: rearranging the choices of an Alternatives node does not change
\* what path_matches returns for any path.
C36_OrderIndependent ==
    phase \in {"returned", "panicked"} =>
        \A k \in AlternativesAt(pattern) :
            \A f \in Rearrangements(Len(pattern[k].choices)) :
                LET r == path_matches(path, compile(Permuted(pattern, k, f))) IN
                IF r.panicked THEN Outcome.panicked
                ELSE r.result = Outcome.result /\ ~Outcome.panicked

\* the step takes one or more bytes from the current component, which may
\* be one it has just taken from the iterator
ConsumesBytes ==
    /\ state'.current_string # <<>>
    /\ IF state.current_string # <<>>
       THEN Len(state'.current_string[1]) < Len(state.current_string[1])
       ELSE state'.pos = state.pos + 1 /\ Len(state'.current_string[1]) < Len(path[state'.pos].bytes)

\* the step leaves the component the matcher was in, of which nothing is
\* left, for the next one
ConsumesComponent ==
    /\ state.current_string = << <<>> >>
    /\ state'.current_string = <<>>
    /\ state'.pos = state.pos
    /\ state.pos < Len(path)

\* the instruction at 0-based offset off is a Jump back to an earlier offset
IsBackwardJump(off) ==
    /\ off >= 0 /\ off < Len(program)
    /\ program[off + 1].op = "Jump"
    /\ program[off + 1].off <= off

\* the step executes its instruction and goes on to the next one
StepsToNext ==
    /\ phase = "running" /\ PcInRange
    /\ phase' = "running"
    /\ state'.pc = state.pc + 1
    /\ alternatives' = alternatives

\* the backward Jump of a gadget is reached only from the AnyCharacter
\* before it, which took a character, or from the Separator before it,
\* which stands behind the AnyString of the gadget and leaves the component
\* that AnyString used up
BackwardJumpGuarded ==
    (phase = "running" /\ PcInRange /\ phase' = "running" /\ IsBackwardJump(state'.pc)) =>
        /\ StepsToNext
        /\ \/ instr.op = "AnyCharacter" /\ ConsumesBytes
           \/ /\ instr.op = "Separator"
              /\ state.pc >= 1
              /\ program[state.pc].op = "AnyString"
              /\ ConsumesComponent

\* a BranchIfLessThan that goes back goes to the Increment of its own
\* counter, which has been incremented and is still below the bound
RepeatBranchGuarded ==
    (/\ phase = "running" /\ PcInRange
     /\ instr.op = "BranchIfLessThan"
     /\ instr.off <= state.pc
     /\ phase' = "running"
     /\ state'.pc = instr.off) =>
        /\ program[instr.off + 1] = I_Increment(instr.ctr)
        /\ state.counters[instr.ctr + 1] >= 1
        /\ state.counters[instr.ctr + 1] < instr.val

\* an Alternative that saves a snapshot at an earlier offset saves it at the
\* Increment of the repeat gadget, behind the test of the counter against
\* the max two instructions before
RepeatSnapshotGuarded ==
    (/\ phase = "running" /\ PcInRange
     /\ instr.op = "Alternative"
     /\ instr.off <= state.pc) =>
        /\ program[instr.off + 1].op = "Increment"
        /\ state.pc >= 2
        /\ program[state.pc - 1].op = "BranchIfLessThan"
        /\ program[state.pc - 1].ctr = program[instr.off + 1].ctr
        /\ state.counters[program[instr.off + 1].ctr + 1] < program[state.pc - 1].val

BackwardBranchesGuarded ==
    /\ BackwardJumpGuarded
    /\ RepeatBranchGuarded
    /\ RepeatSnapshotGuarded

Halted == phase # "running"

\* C37: every match ends after finitely many steps; the backward Jump of
\* a wildcard or recurse gadget is taken only after a character or a
\* component was taken, and the repeat gadget goes back only after an
\* Increment of a counter that is below the bound of the Repeat.
C37_Terminates == <>Halted /\ [][BackwardBranchesGuarded]_vars

\* a match through a wildcard gadget and a repeat gadget that asks for two
\* rounds has ended with a complete match
C37_Witness ==
    /\ phase = "returned"
    /\ \E i \in 1..Len(program) :
           program[i].op = "BranchIfLessThan" /\ program[i].off < i /\ program[i].val >= 2
    /\ \E i \in 1..Len(program) : program[i].op = "AnyCharacter"
    /\ IsComplete
    /\ Len(path) >= 1

\* the step is a Separator that crosses a component boundary: the matcher
\* holds no bytes of a component, another component follows, and the match
\* goes on with the next instruction
CrossesBoundary ==
    /\ Fetching("Separator")
    /\ ~has_string(Matcher)
    /\ peek(state, path) # <<>>
    /\ phase' = "running"
    /\ state'.pc = state.pc + 1

\* the state is one in which no byte of the component at hand is consumed
NothingConsumed(st) ==
    \/ st.current_string = <<>>
    \/ st.pos >= 1 /\ st.current_string = << path[st.pos].bytes >>

\* the step changes nothing but the pc, which goes to the next instruction
OnlyAdvancesPc ==
    /\ phase' = "running"
    /\ state' = [state EXCEPT !.pc = @ + 1]
    /\ alternatives' = alternatives
    /\ result' = result

FreshAfterBoundary == CrossesBoundary => (NothingConsumed(state') /\ state'.fresh_string)

SeparatorOnFreshIsNoOp == (Fetching("Separator") /\ state.fresh_string) => OnlyAdvancesPc

\* C38: fresh_string is true in the state after a component boundary has
\* been crossed and before a byte of the new component is consumed, and a
\* Separator executed in a state with fresh_string true only advances pc.
C38_FreshComponentFlag == [][FreshAfterBoundary /\ SeparatorOnFreshIsNoOp]_vars

====
